---- MODULE Spec2Model ----
(***************************************************************************)
(* Verification model of the GES track element (ges-track-element.c):      *)
(* the interval setters, the keyframe re-synchronisation of control        *)
(* bindings, and the splitting of control bindings.                        *)
(*                                                                         *)
(* GstClockTime is an unsigned 64 bit integer; the model keeps the         *)
(* unsigned wrap-around but with the narrower word ClockMod.  Keyframe     *)
(* values (gfloat/gdouble) are modelled as exact rationals <<num, den>>.   *)
(***************************************************************************)
EXTENDS Integers, Sequences, FiniteSets, TLC

\* ------------------------------------------------------------------------
\* Bounds of the model
\* ------------------------------------------------------------------------
\* word size standing for 2^64: every GstClockTime is in 0 .. ClockMod-1
ClockMod == 16
\* largest timestamp, in-point or duration drawn as an input
MaxTime == 4
\* largest in-point or duration given to the setters of the track element
MaxTeTime == 3
\* largest number of control points of a source drawn as an input
MaxPoints == 3
\* largest priority drawn as an input
MaxPrio == 2
\* number of API calls of one behaviour of the track element
MaxSteps == 3

\* ------------------------------------------------------------------------
\* Program constants
\* ------------------------------------------------------------------------
GST_CLOCK_TIME_NONE == ClockMod - 1
GST_CLOCK_TIME_IS_VALID(t) == t # GST_CLOCK_TIME_NONE
\* one second, in the time unit of the model
GST_SECOND == 1
MIN_NLE_PRIO == 1

U64(x) == x % ClockMod

\* ------------------------------------------------------------------------
\* Exact rationals <<n, d>>, d > 0, in lowest terms (keyframe values)
\* ------------------------------------------------------------------------
Abs(x) == IF x < 0 THEN -x ELSE x

RECURSIVE GCD(_, _)
GCD(a, b) == IF b = 0 THEN a ELSE GCD(b, a % b)

Rat(n, d) == LET g == GCD(Abs(n), d) IN <<n \div g, d \div g>>
RAdd(a, b) == Rat(a[1] * b[2] + b[1] * a[2], a[2] * b[2])
RSub(a, b) == Rat(a[1] * b[2] - b[1] * a[2], a[2] * b[2])
RMul(a, b) == Rat(a[1] * b[1], a[2] * b[2])
RLess(a, b) == a[1] * b[2] < b[1] * a[2]
RLeq(a, b) == a[1] * b[2] <= b[1] * a[2]
R0 == <<0, 1>>
R1 == <<1, 1>>
RHalf == <<1, 2>>
R2 == <<2, 1>>

\* CLAMP (x, low, high) of glib
CLAMP(x, low, high) ==
  IF RLess(high, x) THEN high ELSE IF RLess(x, low) THEN low ELSE x

\* ------------------------------------------------------------------------
\* GstTimedValueControlSource: sequence of control points sorted by
\* timestamp, timestamps unique
\* ------------------------------------------------------------------------
NoValue == [timestamp |-> -1, value |-> R0]
TimedValue(t, v) == [timestamp |-> t, value |-> v]

IsSorted(s) == \A i \in 1 .. Len(s) - 1 : s[i].timestamp < s[i + 1].timestamp
Timestamps(s) == {s[i].timestamp : i \in 1 .. Len(s)}
PointSet(s) == {s[i] : i \in 1 .. Len(s)}

\* gst_timed_value_control_source_unset
CsUnset(s, t) == SelectSeq(s, LAMBDA p : p.timestamp # t)

\* gst_timed_value_control_source_set: replaces the value of an existing
\* point, otherwise inserts in timestamp order
CsSet(s, t, v) ==
  LET before == SelectSeq(s, LAMBDA p : p.timestamp < t)
      after == SelectSeq(s, LAMBDA p : p.timestamp > t)
  IN before \o <<TimedValue(t, v)>> \o after

\* gst_timed_value_control_source_unset_all
CsUnsetAll(s) == <<>>

\* interpolate_values_for_position going from the value of the second point
\* when the position is not after the first point
interpolate_from_second_value(first_value, second_value, position, absolute) ==
  IF first_value = NoValue THEN second_value.value
  ELSE IF second_value = NoValue THEN first_value.value
  ELSE
    LET diff == RSub(second_value.value, first_value.value)
        interval == U64(second_value.timestamp - first_value.timestamp)
        value_at_pos ==
          IF position > first_value.timestamp
          THEN RAdd(first_value.value,
                    RMul(Rat(U64(position - first_value.timestamp), interval), diff))
          ELSE RSub(second_value.value,
                    RMul(Rat(U64(first_value.timestamp - position), interval), diff))
    IN IF ~absolute THEN CLAMP(value_at_pos, R0, R1) ELSE value_at_pos

\* interpolate_values_for_position without the CLAMP of a binding that is
\* not absolute
interpolate_values_unclamped(first_value, second_value, position, absolute) ==
  IF first_value = NoValue THEN second_value.value
  ELSE IF second_value = NoValue THEN first_value.value
  ELSE
    LET diff == RSub(second_value.value, first_value.value)
        interval == U64(second_value.timestamp - first_value.timestamp)
    IN IF position > first_value.timestamp
       THEN RAdd(first_value.value,
                 RMul(Rat(U64(position - first_value.timestamp), interval), diff))
       ELSE RSub(first_value.value,
                 RMul(Rat(U64(first_value.timestamp - position), interval), diff))

\* ------------------------------------------------------------------------
\* interpolate_values_for_position
\* ------------------------------------------------------------------------
interpolate_values_for_position(first_value, second_value, position, absolute) ==
  IF first_value = NoValue THEN second_value.value
  ELSE IF second_value = NoValue THEN first_value.value
  ELSE
    LET diff == RSub(second_value.value, first_value.value)
        interval == U64(second_value.timestamp - first_value.timestamp)
        value_at_pos ==
          IF position > first_value.timestamp
          THEN RAdd(first_value.value,
                    RMul(Rat(U64(position - first_value.timestamp), interval), diff))
          ELSE RSub(first_value.value,
                    RMul(Rat(U64(first_value.timestamp - position), interval), diff))
    IN IF ~absolute THEN CLAMP(value_at_pos, R0, R1) ELSE value_at_pos

\* ------------------------------------------------------------------------
\* _update_control_bindings: body of the loop, for one bound control source
\* ------------------------------------------------------------------------
\* for (tmp = values->next; tmp; tmp = tmp->next) { next = tmp->data;
\*   if (next->timestamp > inpoint) break; }
FindNext(values, inpoint) ==
  IF Len(values) < 2 THEN NoValue
  ELSE LET hits == {k \in 2 .. Len(values) : values[k].timestamp > inpoint}
       IN IF hits = {} THEN values[Len(values)]
          ELSE values[CHOOSE k \in hits : \A j \in hits : k <= j]

\* FindPrev that never leaves its loop early
FindPrevNoBreak(values, end) ==
  IF Len(values) < 2 THEN NoValue ELSE values[1]

\* for (tmp = g_list_last (values)->prev; tmp; tmp = tmp->prev) {
\*   prev = tmp->data; if (prev->timestamp < duration + inpoint) break; }
FindPrev(values, end) ==
  IF Len(values) < 2 THEN NoValue
  ELSE LET hits == {k \in 1 .. Len(values) - 1 : values[k].timestamp < end}
       IN IF hits = {} THEN values[1]
          ELSE values[CHOOSE k \in hits : \A j \in hits : k >= j]

\* the left boundary: the earliest point is replaced by a point at inpoint
AnchorLeft(values, absolute, inpoint) ==
  LET first == values[1]
      next == FindNext(values, inpoint)
      value_at_pos == interpolate_values_for_position(first, next, inpoint, absolute)
  IN CsSet(CsUnset(values, first.timestamp), inpoint, value_at_pos)

\* the right boundary: the last point is replaced by a point at
\* duration + inpoint
AnchorRight(values, absolute, inpoint, duration) ==
  LET end == U64(duration + inpoint)
      last == values[Len(values)]
      prev == FindPrev(values, end)
      value_at_pos == interpolate_values_for_position(prev, last, end, absolute)
  IN CsSet(CsUnset(values, last.timestamp), end, value_at_pos)

\* Prune without the test of the end of the interval
PruneBeforeInpoint(values, inpoint, duration) ==
  SelectSeq(values, LAMBDA value : ~ (value.timestamp < inpoint))

\* the final loop that unsets the points outside of the interval
Prune(values, inpoint, duration) ==
  SelectSeq(values, LAMBDA value :
    ~ \/ value.timestamp < inpoint
      \/ /\ duration # GST_CLOCK_TIME_NONE
         /\ value.timestamp > U64(duration + inpoint))

_update_control_binding(values, absolute, inpoint, duration) ==
  IF duration = 0 THEN CsUnsetAll(values)
  ELSE IF Len(values) = 0 THEN values
  ELSE
    LET left == AnchorLeft(values, absolute, inpoint)
        right == IF duration # GST_CLOCK_TIME_NONE
                 THEN AnchorRight(left, absolute, inpoint, duration)
                 ELSE left
    IN Prune(right, inpoint, duration)

\* ------------------------------------------------------------------------
\* _split_binding: result is the pair of the sources [source, new_source]
\* ------------------------------------------------------------------------
RECURSIVE SplitLoop(_, _, _, _, _, _, _)
SplitLoop(values, k, source, new_source, past_position, position, absolute) ==
  IF k > Len(values) THEN [source |-> source, new_source |-> new_source]
  ELSE
    LET value == values[k]
        last_value == IF k = 1 THEN NoValue ELSE values[k - 1]
    IN IF value.timestamp > position /\ ~past_position
       THEN LET value_at_pos ==
                  interpolate_values_for_position(last_value, value, position, absolute)
                n1 == CsSet(new_source, position, value_at_pos)
                n2 == CsSet(n1, value.timestamp, value.value)
                s1 == CsUnset(source, value.timestamp)
                s2 == CsSet(s1, position, value_at_pos)
            IN SplitLoop(values, k + 1, s2, n2, TRUE, position, absolute)
       ELSE IF past_position
       THEN SplitLoop(values, k + 1, CsUnset(source, value.timestamp),
                      CsSet(new_source, value.timestamp, value.value),
                      past_position, position, absolute)
       ELSE SplitLoop(values, k + 1, source, new_source, past_position,
                      position, absolute)

\* _split_binding that leaves the moved points in the source
_split_binding_no_unset(source, position, absolute) ==
  [source |-> source,
   new_source |-> SplitLoop(source, 1, source, <<>>, FALSE, position, absolute).new_source]

_split_binding(source, position, absolute) ==
  SplitLoop(source, 1, source, <<>>, FALSE, position, absolute)

\* ------------------------------------------------------------------------
\* Inputs: the control sources an application can build
\* ------------------------------------------------------------------------
Times == 0 .. MaxTime
InputValues == {R0, R1, R2}

RECURSIVE SourcesFrom(_, _, _)
\* every sorted source with at most n points whose timestamps are >= t and
\* whose values are in vals
SourcesFrom(t, n, vals) ==
  IF n = 0 \/ t > MaxTime THEN {<<>>}
  ELSE SourcesFrom(t + 1, n, vals)
       \cup {<<TimedValue(t, v)>> \o s : v \in vals, s \in SourcesFrom(t + 1, n - 1, vals)}

Sources == SourcesFrom(0, MaxPoints, InputValues)

\* a duration so large that inpoint + duration wraps around
HugeDuration == ClockMod - 2
Durations == (0 .. MaxTime) \cup {HugeDuration, GST_CLOCK_TIME_NONE}

\* ------------------------------------------------------------------------
\* State
\* ------------------------------------------------------------------------
VARIABLES
  \* keyframe operations applied to one control source
  kf_pc,          \* "idle", "start", "once", "twice", "split"
  kf_values,      \* the control points before the operation
  kf_source,      \* the control source operated on
  kf_new_source,  \* the control source of the new element (split)
  kf_once,        \* the control points after the first resync
  kf_absolute,    \* the "absolute" property of the binding
  kf_inpoint,
  kf_duration,
  kf_position

kfVars == <<kf_pc, kf_values, kf_source, kf_new_source, kf_once, kf_absolute,
            kf_inpoint, kf_duration, kf_position>>

VARIABLES
  \* one GESTrackElement
  nleobject,      \* priv->nleobject # NULL
  track,          \* priv->track, 0 for NULL
  start,          \* GES_TIMELINE_ELEMENT_START
  inpoint,        \* GES_TIMELINE_ELEMENT_INPOINT
  duration,       \* GES_TIMELINE_ELEMENT_DURATION
  priority,       \* GES_TIMELINE_ELEMENT_PRIORITY
  maxduration,    \* GES_TIMELINE_ELEMENT_MAX_DURATION
  active,         \* object->active
  nle,            \* the properties of the NleObject
  bindings,       \* priv->bindings_hashtable
  call,           \* the last call and its argument
  ret,            \* the value the last call returned
  written,        \* the NleObject properties the last call has set
  steps,          \* number of calls so far
  emitted,        \* the signals and notifications of the last call
  controlled      \* per child property, the number of control bindings
                  \* attached to the element that owns the property

VARIABLES
  \* the life of the GESTrackElement in its track and timeline
  life,           \* "alive", "disposed", or "aborted" by g_error
  unrefs,         \* number of gst_object_unref (priv->nleobject)
  nle_state,      \* the GstState of the NleObject and its pending state
  track_timeline, \* ges_track_get_timeline (track) # NULL
  edit_algo,      \* the timeline edit function the last call has invoked
  neighbour       \* start and duration of the next element of the track

VARIABLES
  \* one GstValidateRunner
  rn_default_level,   \* priv->default_level
  rn_flags,           \* _gst_validate_flags
  rn_reports,         \* priv->reports
  rn_reports_by_type, \* priv->reports_by_type, issue id -> list of reports
  rn_call,            \* the last call on the runner
  rn_ret,             \* the value it returned
  rn_emitted          \* the signals it emitted

lifeVars == <<life, unrefs, nle_state, track_timeline, edit_algo, neighbour>>

rnVars == <<rn_default_level, rn_flags, rn_reports, rn_reports_by_type,
            rn_call, rn_ret, rn_emitted>>

teVars == <<nleobject, track, start, inpoint, duration, priority, maxduration,
            active, nle, bindings, call, ret, written, steps, emitted,
            controlled, life, unrefs, nle_state, track_timeline, edit_algo,
            neighbour>>

VARIABLES
  \* one run of the pre-receive hook
  hk_pc,               \* "idle", "loop", "exit"
  hk_line,             \* the line of stdin handled last
  hk_count,            \* number of lines handled
  hk_pushvalid,        \* pushvalid
  hk_error_badcommit,  \* error_badcommit
  hk_status,           \* the exit status, once the hook has ended
  hk_pushed_wip        \* a range handled so far holds a commit marked as
                       \* work in progress

hkVars == <<hk_pc, hk_line, hk_count, hk_pushvalid, hk_error_badcommit,
            hk_status, hk_pushed_wip>>

VARIABLES
  \* one audio source, the tracks and the layer of its clip
  as_pc,             \* "idle", "new", "created"
  as_parent,         \* the source is in a clip
  as_layer,          \* the layer of the clip, 0 when it has none
  as_layer_volume,   \* the volume meta of each layer
  as_volume,         \* the property volume of the element "v"
  as_overridden,     \* the application has set the volume itself
  as_track,          \* the track of the track element, 0 when it has none
  as_current_track,  \* priv->current_track
  as_handlers,       \* per track, the handlers restriction_caps_cb
                     \* connected for this source
  as_restriction,    \* the restriction caps of each track
  as_capsfilter,     \* the caps of priv->capsfilter
  as_call            \* the last operation

asVars == <<as_pc, as_parent, as_layer, as_layer_volume, as_volume,
            as_overridden, as_track, as_current_track, as_handlers,
            as_restriction, as_capsfilter, as_call>>

VARIABLES
  \* the runners of one process
  gr_element_created,  \* element_created
  gr_first_runner,     \* first_runner, 0 for NULL
  gr_initialized,      \* gst_validate_is_initialized ()
  gr_next,             \* the runner g_object_new makes next
  gr_user_created,     \* the runners with priv->user_created
  gr_handed,           \* per runner, how often gst_validate_runner_new has
                       \* returned it
  gr_call,             \* the last operation
  gr_ret,              \* what it returned, 0 for NULL
  gr_life              \* "alive", or "aborted" after g_error

grVars == <<gr_element_created, gr_first_runner, gr_initialized, gr_next,
            gr_user_created, gr_handed, gr_call, gr_ret, gr_life>>

VARIABLES
  \* one call of ges_track_element_add_children_props
  cp_pc,                 \* "idle", "start", "done"
  cp_element,            \* the element: a bin with its children, or not
  cp_wanted_categories,  \* the arrays of strings given, NULL or not
  cp_blacklist,
  cp_whitelist,
  cp_children_props      \* the child properties added

cpVars == <<cp_pc, cp_element, cp_wanted_categories, cp_blacklist,
            cp_whitelist, cp_children_props>>

VARIABLES
  \* one pipeline monitor and the main context
  pm_pc,               \* "idle", "run"
  pm_state,            \* the state of the pipeline
  pm_buffering,        \* monitor->buffering
  pm_got_error,        \* monitor->got_error
  pm_print_pos_srcid,  \* monitor->print_pos_srcid
  pm_sources,          \* the ids of the timeouts of print_position that
                       \* are registered
  pm_next_id           \* the id g_timeout_add gives next

pmVars == <<pm_pc, pm_state, pm_buffering, pm_got_error, pm_print_pos_srcid,
            pm_sources, pm_next_id>>

\* the variables of the keyframe operations, of the track element and of
\* the runner, and those of the other programs
baseVars == <<kfVars, teVars, rnVars>>
xVars == <<hkVars, asVars, grVars, cpVars, pmVars>>
notHk == <<asVars, grVars, cpVars, pmVars>>
notAs == <<hkVars, grVars, cpVars, pmVars>>
notGr == <<hkVars, asVars, cpVars, pmVars>>
notCp == <<hkVars, asVars, grVars, pmVars>>
notPm == <<hkVars, asVars, grVars, cpVars>>

vars == <<kf_pc, kf_values, kf_source, kf_new_source, kf_once, kf_absolute,
          kf_inpoint, kf_duration, kf_position,
          nleobject, track, start, inpoint, duration, priority, maxduration,
          active, nle, bindings, call, ret, written, steps, emitted,
          controlled, life, unrefs, nle_state, track_timeline, edit_algo,
          neighbour,
          rn_default_level, rn_flags, rn_reports, rn_reports_by_type,
          rn_call, rn_ret, rn_emitted,
          hk_pc, hk_line, hk_count, hk_pushvalid, hk_error_badcommit,
          hk_status, hk_pushed_wip,
          as_pc, as_parent, as_layer, as_layer_volume, as_volume,
          as_overridden, as_track, as_current_track, as_handlers,
          as_restriction, as_capsfilter, as_call,
          gr_element_created, gr_first_runner, gr_initialized, gr_next,
          gr_user_created, gr_handed, gr_call, gr_ret, gr_life,
          cp_pc, cp_element, cp_wanted_categories, cp_blacklist,
          cp_whitelist, cp_children_props,
          pm_pc, pm_state, pm_buffering, pm_got_error, pm_print_pos_srcid,
          pm_sources, pm_next_id>>

\* ------------------------------------------------------------------------
\* Keyframe operations on one control source
\* ------------------------------------------------------------------------
KfIdle ==
  /\ kf_pc = "idle"
  /\ kf_values = <<>>
  /\ kf_source = <<>>
  /\ kf_new_source = <<>>
  /\ kf_once = <<>>
  /\ kf_absolute = FALSE
  /\ kf_inpoint = 0
  /\ kf_duration = 0
  /\ kf_position = 0

KfStart ==
  /\ kf_pc = "start"
  /\ kf_values \in Sources
  /\ kf_source = kf_values
  /\ kf_new_source = <<>>
  /\ kf_once = <<>>
  /\ kf_absolute \in BOOLEAN
  /\ \/ kf_inpoint \in Times /\ kf_duration \in Durations /\ kf_position = 0
     \/ kf_inpoint = 0 /\ kf_duration = 0 /\ kf_position \in Times

\* _update_control_bindings (element, inpoint, duration) on the source
KfResync ==
  /\ kf_pc = "start"
  /\ kf_source' = _update_control_binding(kf_source, kf_absolute, kf_inpoint, kf_duration)
  /\ kf_once' = kf_source'
  /\ kf_pc' = "once"
  /\ UNCHANGED <<kf_values, kf_new_source, kf_absolute, kf_inpoint, kf_duration,
                 kf_position>>
  /\ UNCHANGED teVars
  /\ UNCHANGED rnVars
  /\ UNCHANGED xVars

\* the same call a second time
KfResyncAgain ==
  /\ kf_pc = "once"
  /\ kf_source' = _update_control_binding(kf_source, kf_absolute, kf_inpoint, kf_duration)
  /\ kf_pc' = "twice"
  /\ UNCHANGED <<kf_values, kf_new_source, kf_once, kf_absolute, kf_inpoint,
                 kf_duration, kf_position>>
  /\ UNCHANGED teVars
  /\ UNCHANGED rnVars
  /\ UNCHANGED xVars

\* _split_binding (element, new_element, position, source, new_source, absolute)
KfSplit ==
  /\ kf_pc = "start"
  /\ LET r == _split_binding(kf_source, kf_position, kf_absolute)
     IN /\ kf_source' = r.source
        /\ kf_new_source' = r.new_source
  /\ kf_pc' = "split"
  /\ UNCHANGED <<kf_values, kf_once, kf_absolute, kf_inpoint, kf_duration,
                 kf_position>>
  /\ UNCHANGED teVars
  /\ UNCHANGED rnVars
  /\ UNCHANGED xVars


\* ------------------------------------------------------------------------
\* The track element
\* ------------------------------------------------------------------------
\* the children properties registered on the element
ChildProps == {"volume", "pan"}
PropertyNames == ChildProps \cup {"bogus"}
BindingTypes == {"direct", "direct-absolute", "other"}
\* the tracks of the timeline, 0 is NULL
NumTracks == 1
Tracks == 0 .. NumTracks
Starts == 0 .. 1
Priorities == 0 .. MaxPrio
MaxDurations == {GST_CLOCK_TIME_NONE, 2}
TeTimes == 0 .. MaxTeTime
\* the control sources bound to the element: no point, a point at 0, a
\* point at MaxTeTime, or both, rising from 0 to 1
TeSources ==
  {<<>>,
   <<TimedValue(0, R1)>>,
   <<TimedValue(MaxTeTime, R1)>>,
   <<TimedValue(0, R0), TimedValue(MaxTeTime, R1)>>}

NoBinding == [bound |-> FALSE, absolute |-> FALSE, source |-> <<>>]
Binding(absolute, source) == [bound |-> TRUE, absolute |-> absolute, source |-> source]

NoNle == [start |-> 0, inpoint |-> 0, duration |-> 0, priority |-> 0,
          active |-> FALSE, caps |-> 0]

Call(op, arg, name) == [op |-> op, arg |-> arg, name |-> name]

\* the states of a GstElement; an element with a pending state other than
\* VOID_PENDING is in the middle of a state change
GstStates == {"NULL", "READY", "PAUSED", "PLAYING"}
NleState(current, pending) == [current |-> current, pending |-> pending]
NleIdle == NleState("NULL", "VOID_PENDING")

\* the element that follows in the track
Neighbour(s, d) == [start |-> s, duration |-> d]
NoNeighbour == Neighbour(0, 0)

\* ges_track_element_init, then ges_track_element_constructed: the
\* NleObject is created, or its creation fails
TeIdle ==
  /\ nleobject = FALSE
  /\ track = 0
  /\ start = 0
  /\ inpoint = 0
  /\ duration = 0
  /\ priority = 0
  /\ maxduration = GST_CLOCK_TIME_NONE
  /\ active = FALSE
  /\ nle = NoNle
  /\ bindings = [n \in ChildProps |-> NoBinding]
  /\ call = Call("idle", 0, "")
  /\ ret = FALSE
  /\ written = {}
  /\ steps = 0
  /\ emitted = <<>>
  /\ controlled = [n \in ChildProps |-> 0]
  /\ life = "alive"
  /\ unrefs = 0
  /\ nle_state = NleIdle
  /\ track_timeline = FALSE
  /\ edit_algo = "none"
  /\ neighbour = NoNeighbour

ges_track_element_init ==
  /\ start = 0
  /\ inpoint = 0
  /\ duration = GST_SECOND
  /\ priority = 0
  /\ active = TRUE
  /\ bindings = [n \in ChildProps |-> NoBinding]
  /\ controlled = [n \in ChildProps |-> 0]
  /\ track = 0
  /\ life = "alive"
  /\ unrefs = 0

ges_track_element_constructed ==
  /\ nleobject \in BOOLEAN
  /\ nle = IF nleobject
           THEN [start |-> start, inpoint |-> inpoint, duration |-> duration,
                 priority |-> priority, active |-> active, caps |-> 0]
           ELSE NoNle
  /\ written = IF nleobject
               THEN {"start", "inpoint", "duration", "priority", "active"}
               ELSE {}

TeInit ==
  /\ maxduration \in MaxDurations
  /\ ges_track_element_init
  /\ ges_track_element_constructed
  /\ call = Call("constructed", 0, "")
  /\ ret = nleobject
  /\ steps = 0
  /\ emitted = <<>>
  /\ nle_state = NleIdle
  /\ track_timeline = FALSE
  /\ edit_algo = "none"
  /\ neighbour = NoNeighbour

\* _update_control_bindings: every child property that has a binding
_update_control_bindings(new_inpoint, new_duration) ==
  [n \in ChildProps |->
     IF bindings[n].bound
     THEN [bindings[n] EXCEPT
             !.source = _update_control_binding(bindings[n].source,
                          bindings[n].absolute, new_inpoint, new_duration)]
     ELSE bindings[n]]

\* result of a vmethod: return value, the NleObject, the properties set
\* on it, the bindings
Result(r, o, w, b) == [ret |-> r, nle |-> o, written |-> w, bindings |-> b]
Failed == Result(FALSE, nle, {}, bindings)

_set_start(new_start) ==
  IF ~nleobject THEN Failed
  ELSE IF new_start = start THEN Failed
  ELSE Result(TRUE, [nle EXCEPT !.start = new_start], {"start"}, bindings)

_set_inpoint(new_inpoint) ==
  IF ~nleobject THEN Failed
  ELSE IF new_inpoint = inpoint THEN Failed
  ELSE Result(TRUE, [nle EXCEPT !.inpoint = new_inpoint], {"inpoint"},
              _update_control_bindings(new_inpoint, GST_CLOCK_TIME_NONE))

\* the duration _set_duration goes on with after the max-duration test
ClampDuration(new_duration) ==
  IF GST_CLOCK_TIME_IS_VALID(maxduration)
     /\ new_duration > U64(inpoint + maxduration)
  THEN U64(maxduration - inpoint)
  ELSE new_duration

_set_duration(new_duration) ==
  LET clamped == ClampDuration(new_duration)
  IN IF ~nleobject THEN Failed
     ELSE IF clamped = duration THEN Failed
     ELSE Result(TRUE, [nle EXCEPT !.duration = clamped], {"duration"},
                 _update_control_bindings(inpoint, clamped))

\* _set_priority without the MIN_NLE_PRIO test
ClampPriorityNever(new_priority) == new_priority

\* the priority _set_priority goes on with after the MIN_NLE_PRIO test
ClampPriority(new_priority) ==
  IF new_priority < MIN_NLE_PRIO THEN MIN_NLE_PRIO ELSE new_priority

_set_priority(new_priority) ==
  LET clamped == ClampPriority(new_priority)
  IN IF ~nleobject THEN Failed
     ELSE IF clamped = priority THEN Failed
     ELSE Result(TRUE, [nle EXCEPT !.priority = clamped], {"priority"}, bindings)

\* ges_timeline_element_set_start & co: call the vmethod of the track
\* element and, when it returns TRUE, keep the value it has applied
ges_timeline_element_set_start(new_start) ==
  /\ steps < MaxSteps
  /\ life = "alive"
  /\ LET r == _set_start(new_start)
     IN /\ ret' = r.ret
        /\ nle' = r.nle
        /\ written' = r.written
        /\ bindings' = r.bindings
        /\ start' = IF r.ret THEN r.nle.start ELSE start
  /\ call' = Call("set_start", new_start, "")
  /\ emitted' = <<>>
  /\ UNCHANGED controlled
  /\ steps' = steps + 1
  /\ UNCHANGED <<nleobject, track, inpoint, duration, priority, maxduration, active>>
  /\ UNCHANGED kfVars
  /\ UNCHANGED rnVars
  /\ UNCHANGED xVars
  /\ UNCHANGED lifeVars

ges_timeline_element_set_inpoint(new_inpoint) ==
  /\ steps < MaxSteps
  /\ life = "alive"
  /\ LET r == _set_inpoint(new_inpoint)
     IN /\ ret' = r.ret
        /\ nle' = r.nle
        /\ written' = r.written
        /\ bindings' = r.bindings
        /\ inpoint' = IF r.ret THEN r.nle.inpoint ELSE inpoint
  /\ call' = Call("set_inpoint", new_inpoint, "")
  /\ emitted' = <<>>
  /\ UNCHANGED controlled
  /\ steps' = steps + 1
  /\ UNCHANGED <<nleobject, track, start, duration, priority, maxduration, active>>
  /\ UNCHANGED kfVars
  /\ UNCHANGED rnVars
  /\ UNCHANGED xVars
  /\ UNCHANGED lifeVars

ges_timeline_element_set_duration(new_duration) ==
  /\ steps < MaxSteps
  /\ life = "alive"
  /\ LET r == _set_duration(new_duration)
     IN /\ ret' = r.ret
        /\ nle' = r.nle
        /\ written' = r.written
        /\ bindings' = r.bindings
        /\ duration' = IF r.ret THEN r.nle.duration ELSE duration
  /\ call' = Call("set_duration", new_duration, "")
  /\ emitted' = <<>>
  /\ UNCHANGED controlled
  /\ steps' = steps + 1
  /\ UNCHANGED <<nleobject, track, start, inpoint, priority, maxduration, active>>
  /\ UNCHANGED kfVars
  /\ UNCHANGED rnVars
  /\ UNCHANGED xVars
  /\ UNCHANGED lifeVars

ges_timeline_element_set_priority(new_priority) ==
  /\ steps < MaxSteps
  /\ life = "alive"
  /\ LET r == _set_priority(new_priority)
     IN /\ ret' = r.ret
        /\ nle' = r.nle
        /\ written' = r.written
        /\ bindings' = r.bindings
        /\ priority' = IF r.ret THEN r.nle.priority ELSE priority
  /\ call' = Call("set_priority", new_priority, "")
  /\ emitted' = <<>>
  /\ UNCHANGED controlled
  /\ steps' = steps + 1
  /\ UNCHANGED <<nleobject, track, start, inpoint, duration, maxduration, active>>
  /\ UNCHANGED kfVars
  /\ UNCHANGED rnVars
  /\ UNCHANGED xVars
  /\ UNCHANGED lifeVars

\* ges_track_element_set_active without the test of the current value
SameActiveNever(new_active) == FALSE

\* G_UNLIKELY (active == object->active)
SameActive(new_active) == new_active = active

ges_track_element_set_active(new_active) ==
  /\ steps < MaxSteps
  /\ life = "alive"
  /\ IF ~nleobject \/ SameActive(new_active)
     THEN /\ ret' = FALSE
          /\ written' = {}
          /\ emitted' = <<>>
          /\ UNCHANGED <<nle, active>>
     ELSE /\ nle' = [nle EXCEPT !.active = new_active]
          /\ written' = {"active"}
          /\ IF new_active # active
             THEN /\ active' = new_active
                  /\ emitted' = <<"active_changed">>
             ELSE /\ emitted' = <<>>
                  /\ UNCHANGED active
          /\ ret' = TRUE
  /\ call' = Call("set_active", IF new_active THEN 1 ELSE 0, "")
  /\ UNCHANGED controlled
  /\ steps' = steps + 1
  /\ UNCHANGED <<nleobject, track, start, inpoint, duration, priority,
                 maxduration, bindings>>
  /\ UNCHANGED kfVars
  /\ UNCHANGED rnVars
  /\ UNCHANGED xVars
  /\ UNCHANGED lifeVars

\* the caps of a track
ges_track_get_caps(t) == t

\* ges_track_element_set_track without the test of the NleObject
ges_track_element_set_track_unchecked(new_track) ==
  /\ steps < MaxSteps
  /\ life = "alive"
  /\ track' = new_track
  /\ IF new_track # 0 /\ nleobject
     THEN /\ nle' = [nle EXCEPT !.caps = ges_track_get_caps(new_track)]
          /\ written' = {"caps"}
     ELSE /\ written' = {}
          /\ UNCHANGED nle
  /\ ret' = TRUE
  /\ emitted' = <<"notify::track">>
  /\ UNCHANGED controlled
  /\ call' = Call("set_track", new_track, "")
  /\ steps' = steps + 1
  /\ UNCHANGED <<nleobject, start, inpoint, duration, priority, maxduration,
                 active, bindings>>
  /\ UNCHANGED kfVars
  /\ UNCHANGED rnVars
  /\ UNCHANGED xVars
  /\ UNCHANGED lifeVars

ges_track_element_set_track(new_track) ==
  /\ steps < MaxSteps
  /\ life = "alive"
  /\ IF ~nleobject
     THEN /\ ret' = FALSE
          /\ written' = {}
          /\ emitted' = <<>>
          /\ UNCHANGED <<nle, track>>
     ELSE /\ track' = new_track
          /\ IF new_track # 0
             THEN /\ nle' = [nle EXCEPT !.caps = ges_track_get_caps(new_track)]
                  /\ written' = {"caps"}
             ELSE /\ written' = {}
                  /\ UNCHANGED nle
          /\ emitted' = <<"notify::track">>
          /\ ret' = TRUE
  /\ UNCHANGED controlled
  /\ call' = Call("set_track", new_track, "")
  /\ steps' = steps + 1
  /\ UNCHANGED <<nleobject, start, inpoint, duration, priority, maxduration,
                 active, bindings>>
  /\ UNCHANGED kfVars
  /\ UNCHANGED rnVars
  /\ UNCHANGED xVars
  /\ UNCHANGED lifeVars

\* the control bindings attached to the element of a child property, by
\* the name of the property
gst_object_add_control_binding(attached, name) ==
  [attached EXCEPT ![name] = @ + 1]

gst_object_remove_control_binding(attached, name) ==
  [attached EXCEPT ![name] = IF @ > 0 THEN @ - 1 ELSE 0]

\* ges_track_element_set_control_source leaving the old binding attached
KeepOldBinding(property_name) == controlled

\* "First remove existing binding" of ges_track_element_set_control_source
RemoveOldBinding(property_name) ==
  IF bindings[property_name].bound
  THEN gst_object_remove_control_binding(controlled, property_name)
  ELSE controlled

\* the property name is the name of a child property of the element
ges_track_element_lookup_child(property_name) == property_name \in ChildProps

\* ges_track_element_set_control_source taking any type of binding
DirectBindingAny(binding_type) == TRUE

\* direct || direct_absolute
DirectBinding(binding_type) == binding_type \in {"direct", "direct-absolute"}

\* source = <<>> with has_source = FALSE is a NULL control source
ges_track_element_set_control_source(has_source, source, property_name, binding_type) ==
  /\ steps < MaxSteps
  /\ life = "alive"
  /\ IF ~has_source \/ ~ges_track_element_lookup_child(property_name)
        \/ ~DirectBinding(binding_type)
     THEN /\ ret' = FALSE
          /\ emitted' = <<>>
          /\ UNCHANGED <<bindings, controlled>>
     ELSE /\ controlled' = gst_object_add_control_binding(
                              RemoveOldBinding(property_name), property_name)
          /\ bindings' = [bindings EXCEPT ![property_name] =
                            Binding(binding_type = "direct-absolute", source)]
          /\ emitted' = <<"control-binding-added">>
          /\ ret' = TRUE
  /\ call' = Call("set_control_source", 0, property_name)
  /\ written' = {}
  /\ steps' = steps + 1
  /\ UNCHANGED <<nleobject, track, start, inpoint, duration, priority,
                 maxduration, active, nle>>
  /\ UNCHANGED kfVars
  /\ UNCHANGED rnVars
  /\ UNCHANGED xVars
  /\ UNCHANGED lifeVars

ges_track_element_remove_control_binding(property_name) ==
  /\ steps < MaxSteps
  /\ life = "alive"
  /\ IF property_name \in ChildProps /\ bindings[property_name].bound
     THEN /\ controlled' = gst_object_remove_control_binding(controlled,
                                                               property_name)
          /\ emitted' = <<"control-binding-removed">>
          /\ bindings' = [bindings EXCEPT ![property_name] = NoBinding]
          /\ ret' = TRUE
     ELSE /\ ret' = FALSE
          /\ emitted' = <<>>
          /\ UNCHANGED <<bindings, controlled>>
  /\ call' = Call("remove_control_binding", 0, property_name)
  /\ written' = {}
  /\ steps' = steps + 1
  /\ UNCHANGED <<nleobject, track, start, inpoint, duration, priority,
                 maxduration, active, nle>>
  /\ UNCHANGED kfVars
  /\ UNCHANGED rnVars
  /\ UNCHANGED xVars
  /\ UNCHANGED lifeVars

\* ------------------------------------------------------------------------
\* The element in its track and timeline: dispose and edit
\* ------------------------------------------------------------------------
\* ges_track_element_dispose logging a warning where it logs an error
ges_track_element_dispose_warning ==
  /\ steps < MaxSteps
  /\ life = "alive"
  /\ bindings' = [n \in ChildProps |-> NoBinding]
  /\ IF nleobject
     THEN /\ nle_state' = IF track # 0 /\ nle_state.current # "NULL"
                          THEN NleIdle ELSE nle_state
          /\ unrefs' = unrefs + 1
          /\ nleobject' = FALSE
     ELSE UNCHANGED <<nle_state, unrefs, nleobject>>
  /\ life' = "disposed"
  /\ call' = Call("dispose", 0, "")
  /\ ret' = FALSE
  /\ written' = {}
  /\ emitted' = <<>>
  /\ steps' = steps + 1
  /\ UNCHANGED <<track, start, inpoint, duration, priority, maxduration, active,
                 nle, controlled, track_timeline, edit_algo, neighbour>>
  /\ UNCHANGED kfVars
  /\ UNCHANGED rnVars
  /\ UNCHANGED xVars

\* g_error aborts the program: nothing of dispose runs after it
ges_track_element_dispose ==
  /\ steps < MaxSteps
  /\ life = "alive"
  /\ bindings' = [n \in ChildProps |-> NoBinding]
  /\ IF nleobject
     THEN IF track # 0
          THEN /\ life' = "aborted"
               /\ UNCHANGED <<unrefs, nleobject>>
          ELSE /\ unrefs' = unrefs + 1
               /\ nleobject' = FALSE
               /\ life' = "disposed"
     ELSE /\ life' = "disposed"
          /\ UNCHANGED <<unrefs, nleobject>>
  /\ call' = Call("dispose", 0, "")
  /\ ret' = FALSE
  /\ written' = {}
  /\ emitted' = <<>>
  /\ steps' = steps + 1
  /\ UNCHANGED <<track, start, inpoint, duration, priority, maxduration, active,
                 nle, controlled, nle_state, track_timeline, edit_algo, neighbour>>
  /\ UNCHANGED kfVars
  /\ UNCHANGED rnVars
  /\ UNCHANGED xVars

\* the states the pipeline puts the NleObject in
NleStates ==
  {NleIdle, NleState("PLAYING", "VOID_PENDING"), NleState("PAUSED", "PLAYING")}
Scheduled(s) == s.current # "NULL" \/ s.pending # "VOID_PENDING"

\* the NleObject of an element that is in a track runs with the track
gst_element_set_state(s) ==
  /\ life = "alive"
  /\ nleobject
  /\ track # 0
  /\ s # nle_state
  /\ nle_state' = s
  /\ UNCHANGED <<nleobject, track, start, inpoint, duration, priority,
                 maxduration, active, nle, bindings, call, ret, written, steps,
                 emitted, controlled, life, unrefs, track_timeline, edit_algo,
                 neighbour>>
  /\ UNCHANGED kfVars
  /\ UNCHANGED rnVars
  /\ UNCHANGED xVars

\* The edit functions of the timeline work on the interval of the element
\* and on the element that follows it in the track.  Each returns whether
\* the edit was done and the intervals after it; an edit that cannot be
\* done leaves the intervals as they were.
EditModes == {"normal", "trim", "ripple", "roll", "slide"}
Edges == {"start", "end", "none"}
Neighbours == {Neighbour(1, 1), Neighbour(2, 2)}

Tl(s, i, d, n) == [start |-> s, inpoint |-> i, duration |-> d, neighbour |-> n]
Done(tl) == [ok |-> TRUE, tl |-> tl]
NotDone(tl) == [ok |-> FALSE, tl |-> tl]
ValidTl(tl) ==
  /\ tl.start >= 0 /\ tl.inpoint >= 0 /\ tl.duration >= 0
  /\ tl.neighbour.start >= 0 /\ tl.neighbour.duration >= 0
Try(tl, new_tl, collision) ==
  IF collision \/ ~ValidTl(new_tl) THEN NotDone(tl) ELSE Done(new_tl)

timeline_move_object(tl, edge, position, collision) ==
  Try(tl, [tl EXCEPT !.start = position], collision)

timeline_trim_object(tl, edge, position, collision) ==
  CASE edge = "start" ->
         Try(tl, [tl EXCEPT !.start = position,
                            !.inpoint = tl.inpoint + (position - tl.start),
                            !.duration = tl.duration - (position - tl.start)],
             collision)
    [] edge = "end" ->
         Try(tl, [tl EXCEPT !.duration = position - tl.start], collision)
    [] OTHER -> NotDone(tl)

\* the element that follows is shifted as far as the edited edge
timeline_ripple_object(tl, edge, position, collision) ==
  LET end == tl.start + tl.duration
      later == tl.neighbour.start >= end
  IN IF edge = "end"
     THEN Try(tl, [tl EXCEPT !.duration = position - tl.start,
                             !.neighbour.start =
                               IF later THEN @ + (position - end) ELSE @],
              collision)
     ELSE Try(tl, [tl EXCEPT !.start = position,
                             !.neighbour.start =
                               IF later THEN @ + (position - tl.start) ELSE @],
              collision)

\* the end of the element and the start of the element that follows move
\* together
timeline_roll_object(tl, edge, position, collision) ==
  LET end == tl.start + tl.duration
  IN IF edge = "end" /\ tl.neighbour.start = end
     THEN Try(tl, [tl EXCEPT !.duration = position - tl.start,
                             !.neighbour.start = position,
                             !.neighbour.duration = @ - (position - end)],
              collision)
     ELSE NotDone(tl)

\* the element moves, the element that follows gives or takes the room
timeline_slide_object(tl, edge, position, collision) ==
  LET end == tl.start + tl.duration
      delta == position - tl.start
  IN IF tl.neighbour.start = end
     THEN Try(tl, [tl EXCEPT !.start = position,
                             !.neighbour.start = @ + delta,
                             !.neighbour.duration = @ - delta],
              collision)
     ELSE Try(tl, [tl EXCEPT !.start = position], collision)

EditCall(algo, r) == [algo |-> algo, ok |-> r.ok, tl |-> r.tl]

\* the switch of ges_track_element_edit where the case of
\* GES_EDIT_MODE_NORMAL does not return and goes on into the next case
EditSwitchFallthrough(tl, mode, edge, position, collision) ==
  CASE mode = "normal" ->
         EditCall("trim",
                  timeline_trim_object(
                    timeline_move_object(tl, edge, position, collision).tl,
                    edge, position, collision))
    [] mode = "trim" ->
         EditCall("trim", timeline_trim_object(tl, edge, position, collision))
    [] mode = "ripple" ->
         EditCall("ripple", timeline_ripple_object(tl, edge, position, collision))
    [] mode = "roll" ->
         EditCall("roll", timeline_roll_object(tl, edge, position, collision))
    [] mode = "slide" ->
         EditCall("slide", timeline_slide_object(tl, edge, position, collision))
    [] OTHER -> EditCall("none", NotDone(tl))

\* the switch of ges_track_element_edit
EditSwitch(tl, mode, edge, position, collision) ==
  CASE mode = "normal" ->
         EditCall("move", timeline_move_object(tl, edge, position, collision))
    [] mode = "trim" ->
         EditCall("trim", timeline_trim_object(tl, edge, position, collision))
    [] mode = "ripple" ->
         EditCall("ripple", timeline_ripple_object(tl, edge, position, collision))
    [] mode = "roll" ->
         EditCall("roll", timeline_roll_object(tl, edge, position, collision))
    [] mode = "slide" ->
         EditCall("slide", timeline_slide_object(tl, edge, position, collision))
    [] OTHER -> EditCall("none", NotDone(tl))

\* ges_track_element_edit going on without a timeline
EditPlacedAlways == TRUE

\* the element is in a track and the track is in a timeline
EditPlaced == track # 0 /\ track_timeline

ges_track_element_edit(mode, edge, position, collision) ==
  /\ steps < MaxSteps
  /\ life = "alive"
  /\ LET tl == Tl(start, inpoint, duration, neighbour)
         r == IF EditPlaced
              THEN EditSwitch(tl, mode, edge, position, collision)
              ELSE EditCall("none", NotDone(tl))
     IN /\ ret' = r.ok
        /\ edit_algo' = r.algo
        /\ start' = r.tl.start
        /\ inpoint' = r.tl.inpoint
        /\ duration' = r.tl.duration
        /\ neighbour' = r.tl.neighbour
        /\ nle' = [nle EXCEPT
                     !.start = IF r.tl.start # start THEN r.tl.start ELSE @,
                     !.inpoint = IF r.tl.inpoint # inpoint THEN r.tl.inpoint ELSE @,
                     !.duration = IF r.tl.duration # duration
                                  THEN r.tl.duration ELSE @]
        /\ written' = {p \in {"start", "inpoint", "duration"} : r.tl[p] # tl[p]}
        /\ bindings' = IF r.tl.inpoint # inpoint \/ r.tl.duration # duration
                       THEN _update_control_bindings(r.tl.inpoint, r.tl.duration)
                       ELSE bindings
  /\ call' = Call("edit", position, mode)
  /\ emitted' = <<>>
  /\ steps' = steps + 1
  /\ UNCHANGED <<nleobject, track, priority, maxduration, active, controlled,
                 life, unrefs, nle_state, track_timeline>>
  /\ UNCHANGED kfVars
  /\ UNCHANGED rnVars
  /\ UNCHANGED xVars

\* ------------------------------------------------------------------------
\* The GstValidateRunner
\* ------------------------------------------------------------------------
MaxReports == 2
NumIssues == 2
MaxRepeated == 1

IssueIds == 1 .. NumIssues
\* GstValidateReportLevel, in the order gst_validate_report_check_abort
\* compares them
GST_VALIDATE_REPORT_LEVEL_CRITICAL == 0
GST_VALIDATE_REPORT_LEVEL_WARNING == 1
GST_VALIDATE_REPORT_LEVEL_ISSUE == 2
ReportLevels == {GST_VALIDATE_REPORT_LEVEL_CRITICAL,
                 GST_VALIDATE_REPORT_LEVEL_WARNING}
\* GstValidateReportingDetails that _parse_reporting_level accepts
ReportingDetails == {"none", "synthetic", "subchain", "monitor", "all", "smart"}
DefaultLevels == {"none", "synthetic", "all", "smart"}
\* the level of the reporter of a report
ReporterLevels == {"unknown", "all"}
\* the GST_VALIDATE flags that make reports fatal
FatalFlags == {{}, {"fatal_warnings"}, {"fatal_criticals"}}

Report(issue_id, level) ==
  [issue_id |-> issue_id, level |-> level, reporting_level |-> "unknown",
   repeated_reports |-> 0]
Reports == {Report(i, l) : i \in IssueIds, l \in ReportLevels}

RnIdle ==
  /\ rn_default_level = "none"
  /\ rn_flags = {}
  /\ rn_reports = <<>>
  /\ rn_reports_by_type = <<>>
  /\ rn_call = [op |-> "idle", print_result |-> FALSE]
  /\ rn_ret = 0
  /\ rn_emitted = <<>>

\* gst_validate_runner_init with _init_report_levels
gst_validate_runner_init ==
  /\ rn_default_level \in DefaultLevels
  /\ rn_flags \in FatalFlags
  /\ rn_reports = <<>>
  /\ rn_reports_by_type = [i \in IssueIds |-> <<>>]
  /\ rn_call = [op |-> "init", print_result |-> FALSE]
  /\ rn_ret = 0
  /\ rn_emitted = <<>>

gst_validate_report_check_abort(report) ==
  \/ report.level <= GST_VALIDATE_REPORT_LEVEL_ISSUE /\ "fatal_issues" \in rn_flags
  \/ report.level <= GST_VALIDATE_REPORT_LEVEL_WARNING /\ "fatal_warnings" \in rn_flags
  \/ report.level <= GST_VALIDATE_REPORT_LEVEL_CRITICAL /\ "fatal_criticals" \in rn_flags

gst_validate_report_set_reporting_level(report, level) ==
  [report EXCEPT !.reporting_level = level]

\* the hash table after synthesize_reports (runner, report)
synthesize_reports(report) ==
  [rn_reports_by_type EXCEPT ![report.issue_id] = Append(@, report)]

\* where gst_validate_runner_add_report puts a report: the case of
\* GST_VALIDATE_SHOW_SMART has no break and goes on into the case of
\* GST_VALIDATE_SHOW_SYNTHETIC
ShowSynthetic == "synthesized"
ShowSmart(report) ==
  IF ~gst_validate_report_check_abort(report)
     /\ report.level # GST_VALIDATE_REPORT_LEVEL_CRITICAL
  THEN "synthesized"
  ELSE ShowSynthetic

Strategy(report, reporter_level) ==
  IF reporter_level = "unknown"
  THEN CASE rn_default_level = "none" -> "returned"
         [] rn_default_level = "smart" -> ShowSmart(report)
         [] rn_default_level = "synthetic" -> ShowSynthetic
         [] OTHER -> "detailed"
  ELSE "detailed"

\* g_list_length of every list of the hash table together
RECURSIVE SumLengths(_, _)
SumLengths(table, keys) ==
  IF keys = {} THEN 0
  ELSE LET i == CHOOSE i \in keys : TRUE
       IN Len(table[i]) + SumLengths(table, keys \ {i})

\* the number of reports the runner holds
RnHeld == Len(rn_reports) + SumLengths(rn_reports_by_type, IssueIds)

gst_validate_runner_add_report(report, reporter_level) ==
  /\ RnHeld < MaxReports
  /\ LET levelled == IF reporter_level = "unknown"
                     THEN gst_validate_report_set_reporting_level(report,
                                                                  rn_default_level)
                     ELSE report
         where == Strategy(report, reporter_level)
     IN /\ rn_reports_by_type' = IF where = "synthesized"
                                 THEN synthesize_reports(levelled)
                                 ELSE rn_reports_by_type
        /\ rn_reports' = IF where = "detailed"
                         THEN Append(rn_reports, levelled)
                         ELSE rn_reports
        /\ rn_emitted' = IF where = "detailed" THEN <<"report-added">> ELSE <<>>
  /\ rn_call' = [op |-> "add_report", print_result |-> FALSE]
  /\ rn_ret' = 0
  /\ UNCHANGED <<rn_default_level, rn_flags>>
  /\ UNCHANGED kfVars
  /\ UNCHANGED teVars
  /\ UNCHANGED xVars

\* the reporter sees the issue of the k-th detailed report once more
gst_validate_report_add_repeated_report(k) ==
  /\ k \in 1 .. Len(rn_reports)
  /\ rn_reports[k].repeated_reports < MaxRepeated
  /\ rn_reports' = [rn_reports EXCEPT ![k].repeated_reports = @ + 1]
  /\ rn_call' = [op |-> "add_repeated_report", print_result |-> FALSE]
  /\ rn_ret' = 0
  /\ rn_emitted' = <<>>
  /\ UNCHANGED <<rn_default_level, rn_flags, rn_reports_by_type>>
  /\ UNCHANGED kfVars
  /\ UNCHANGED teVars
  /\ UNCHANGED xVars


\* g_list_length (report->repeated_reports) summed over a list of reports
RECURSIVE SumRepeated(_)
SumRepeated(reports) ==
  IF reports = <<>> THEN 0
  ELSE Head(reports).repeated_reports + SumRepeated(Tail(reports))

g_hash_table_size(table) == Cardinality({i \in DOMAIN table : table[i] # <<>>})

gst_validate_runner_get_reports_count(reports, table) ==
  Len(reports) + SumRepeated(reports) + g_hash_table_size(table)

IsCritical(report) == report.level = GST_VALIDATE_REPORT_LEVEL_CRITICAL

\* the criticals _do_report_synthesis collects from the hash table, as the
\* places of the table they are at
_do_report_synthesis(table) ==
  {<<i, k>> \in IssueIds \X (1 .. MaxReports + 1) :
     k <= Len(table[i]) /\ IsCritical(table[i][k])}

\* the value gst_validate_runner_printf returns
gst_validate_runner_printf(reports, table) ==
  LET criticals == _do_report_synthesis(table)
      listed == {k \in 1 .. Len(reports) : IsCritical(reports[k])}
  IN IF criticals # {} \/ listed # {} THEN 18 ELSE 0

\* the value gst_validate_runner_exit returns
gst_validate_runner_exit(reports, table, print_result) ==
  IF print_result
  THEN gst_validate_runner_printf(reports, table)
  ELSE IF \E k \in 1 .. Len(reports) : IsCritical(reports[k]) THEN 18 ELSE 0

RnGetReportsCount ==
  /\ rn_ret' = gst_validate_runner_get_reports_count(rn_reports, rn_reports_by_type)
  /\ rn_call' = [op |-> "get_reports_count", print_result |-> FALSE]
  /\ rn_emitted' = <<>>
  /\ UNCHANGED <<rn_default_level, rn_flags, rn_reports, rn_reports_by_type>>
  /\ UNCHANGED kfVars
  /\ UNCHANGED teVars
  /\ UNCHANGED xVars

RnExit(print_result) ==
  /\ rn_ret' = gst_validate_runner_exit(rn_reports, rn_reports_by_type, print_result)
  /\ rn_call' = [op |-> "exit", print_result |-> print_result]
  /\ rn_emitted' = <<"stopping">>
  /\ UNCHANGED <<rn_default_level, rn_flags, rn_reports, rn_reports_by_type>>
  /\ UNCHANGED kfVars
  /\ UNCHANGED teVars
  /\ UNCHANGED xVars

\* ------------------------------------------------------------------------
\* The pre-receive hook (common/hooks/pre-receive.hook)
\* ------------------------------------------------------------------------
\* strings are sequences of characters
MaxCommits == 3
MaxLines == 2

NL == "\n"
Whitespace == {" ", NL}

\* the subjects of the commits pushed
Subjects ==
  {<<"f", "i", "x">>, <<"!", "x">>, <<"W", "I", "P", ":", "x">>,
   <<"w", "i", "p", ":">>, <<"W", "I", "P">>}

\* the ranges old..new, as the subjects git log lists, newest first
Ranges == UNION {[1 .. n -> Subjects] : n \in 0 .. MaxCommits}

\* refs, as their components between the slashes
Refs == {<<"refs", "heads", "master">>, <<"refs", "heads", "0.10">>,
         <<"refs", "tags", "1.2">>}

\* the merge commits git rev-list --parents lists in a range: for each one,
\* whether each parent is in a branch of the repository
RevLists == {<<>>, << <<TRUE, TRUE>> >>, << <<TRUE, FALSE>> >>}

Lines == [ref : Refs, merges : RevLists, subjects : Ranges]
NoLine == [ref |-> <<>>, merges |-> <<>>, subjects |-> <<>>]

\* git log --format=%s: every subject followed by a newline
RECURSIVE GitLog(_)
GitLog(subjects) ==
  IF subjects = <<>> THEN <<>>
  ELSE Head(subjects) \o <<NL>> \o GitLog(Tail(subjects))

RECURSIVE LStrip(_)
LStrip(str) ==
  IF str # <<>> /\ Head(str) \in Whitespace THEN LStrip(Tail(str)) ELSE str

RECURSIVE RStrip(_)
RStrip(str) ==
  IF str # <<>> /\ str[Len(str)] \in Whitespace
  THEN RStrip(SubSeq(str, 1, Len(str) - 1))
  ELSE str

Strip(str) == RStrip(LStrip(str))

\* str.rsplit('\n', 1): one split, at the last newline
RSplit1(str) ==
  LET at == {k \in 1 .. Len(str) : str[k] = NL}
  IN IF at = {} THEN <<str>>
     ELSE LET last == CHOOSE k \in at : \A j \in at : j <= k
          IN <<SubSeq(str, 1, last - 1), SubSeq(str, last + 1, Len(str))>>

StartsWith(str, prefix) ==
  Len(prefix) <= Len(str) /\ SubSeq(str, 1, Len(prefix)) = prefix

WipMarker(line) ==
  \/ StartsWith(line, <<"!">>)
  \/ StartsWith(line, <<"W", "I", "P", ":">>)
  \/ StartsWith(line, <<"w", "i", "p", ":">>)

contains_wip_commits(subjects) ==
  LET stdout == GitLog(subjects)
      parts == RSplit1(Strip(stdout))
  IN stdout # <<>> /\ \E k \in 1 .. Len(parts) : WipMarker(parts[k])

openbranches == {"1.2", "1.0", "master"}

branch_closed(ref) ==
  IF ~(Len(ref) >= 3 /\ ref[1] = "refs" /\ ref[2] = "heads") THEN FALSE
  ELSE IF ref[Len(ref)] \in openbranches THEN FALSE
  ELSE TRUE

\* commit_in_valid_branch is the entry of the parent
contains_valid_merge(merges) ==
  \A c \in 1 .. Len(merges) :
    Len(merges[c]) > 1 => \A parent \in 1 .. Len(merges[c]) : merges[c][parent]

ExitStatus(pushvalid) == IF pushvalid THEN 0 ELSE 255

HkIdle ==
  /\ hk_pc = "idle"
  /\ hk_line = NoLine
  /\ hk_count = 0
  /\ hk_pushvalid = TRUE
  /\ hk_error_badcommit = FALSE
  /\ hk_status = 0
  /\ hk_pushed_wip = FALSE

HkStart ==
  /\ hk_pc = "loop"
  /\ hk_line = NoLine
  /\ hk_count = 0
  /\ hk_pushvalid = TRUE
  /\ hk_error_badcommit = FALSE
  /\ hk_status = 0
  /\ hk_pushed_wip = FALSE

\* one turn of the loop over stdin; a break ends the hook
HkLine(line) ==
  /\ hk_pc = "loop"
  /\ hk_count < MaxLines
  /\ hk_line' = line
  /\ hk_count' = hk_count + 1
  /\ hk_pushed_wip' = (hk_pushed_wip \/ \E k \in 1 .. Len(line.subjects) :
                                           WipMarker(line.subjects[k]))
  /\ IF branch_closed(line.ref)
     THEN /\ hk_pushvalid' = FALSE
          /\ hk_pc' = "exit"
          /\ UNCHANGED hk_error_badcommit
     ELSE IF ~contains_valid_merge(line.merges)
     THEN /\ hk_pushvalid' = FALSE
          /\ hk_pc' = "exit"
          /\ UNCHANGED hk_error_badcommit
     ELSE IF contains_wip_commits(line.subjects)
     THEN /\ hk_error_badcommit' = TRUE
          /\ hk_pushvalid' = FALSE
          /\ hk_pc' = "exit"
     ELSE /\ hk_pushvalid' = TRUE
          /\ hk_pc' = "loop"
          /\ UNCHANGED hk_error_badcommit
  /\ hk_status' = ExitStatus(hk_pushvalid')
  /\ UNCHANGED baseVars
  /\ UNCHANGED notHk

\* stdin is exhausted
HkEof ==
  /\ hk_pc = "loop"
  /\ hk_pc' = "exit"
  /\ hk_status' = ExitStatus(hk_pushvalid)
  /\ UNCHANGED <<hk_line, hk_count, hk_pushvalid, hk_error_badcommit,
                 hk_pushed_wip>>
  /\ UNCHANGED baseVars
  /\ UNCHANGED notHk

\* ------------------------------------------------------------------------
\* The audio source (ges-audio-source.c)
\* ------------------------------------------------------------------------
NumAudioTracks == 2
NumLayers == 1

AudioTracks == 1 .. NumAudioTracks
Layers == 1 .. NumLayers
\* the volume is 1.0 unless it is set
DEFAULT_VOLUME == R1
Volumes == {R1, RHalf}
\* caps, and the caps of a capsfilter nobody has set
Caps == {"NULL", "audio/x-raw"}
GST_CAPS_ANY == "ANY"

\* from is the track the source leaves
AsCall(op, arg, from) == [op |-> op, arg |-> arg, from |-> from]

\* _sync_element_to_layer_property_float that sets nothing
_sync_element_to_layer_never(parent, layer, volume) == volume

\* the value of the property of the element after
\* _sync_element_to_layer_property_float
_sync_element_to_layer_property_float(parent, layer, volume) ==
  IF ~parent THEN volume
  ELSE IF layer # 0 THEN as_layer_volume[layer]
  ELSE volume

\* the caps restriction_caps_cb sets on the capsfilter
restriction_caps_cb(new_track) == as_restriction[new_track]

g_signal_handlers_disconnect_by_func(handlers, new_track) ==
  [handlers EXCEPT ![new_track] = 0]

g_signal_connect(handlers, new_track) ==
  [handlers EXCEPT ![new_track] = @ + 1]

\* _track_changed_cb that leaves the handler of the old track connected
_track_changed_cb_keep(new_track) ==
  /\ as_current_track' = new_track
  /\ IF new_track # 0
     THEN /\ as_capsfilter' = restriction_caps_cb(new_track)
          /\ as_handlers' = g_signal_connect(as_handlers, new_track)
     ELSE UNCHANGED <<as_capsfilter, as_handlers>>

_track_changed_cb(new_track) ==
  LET disconnected ==
        IF as_current_track # 0
        THEN g_signal_handlers_disconnect_by_func(as_handlers, as_current_track)
        ELSE as_handlers
  IN /\ as_current_track' = new_track
     /\ IF new_track # 0
        THEN /\ as_capsfilter' = restriction_caps_cb(new_track)
             /\ as_handlers' = g_signal_connect(disconnected, new_track)
        ELSE /\ as_handlers' = disconnected
             /\ UNCHANGED as_capsfilter

AsIdle ==
  /\ as_pc = "idle"
  /\ as_parent = FALSE
  /\ as_layer = 0
  /\ as_layer_volume = [l \in Layers |-> DEFAULT_VOLUME]
  /\ as_volume = DEFAULT_VOLUME
  /\ as_overridden = FALSE
  /\ as_track = 0
  /\ as_current_track = 0
  /\ as_handlers = [t \in AudioTracks |-> 0]
  /\ as_restriction = [t \in AudioTracks |-> "NULL"]
  /\ as_capsfilter = GST_CAPS_ANY
  /\ as_call = AsCall("none", 0, 0)

\* ges_audio_source_init; the clip and its layer are there or not
AsStart ==
  /\ as_pc = "new"
  /\ as_parent \in BOOLEAN
  /\ as_layer \in (IF as_parent THEN {0} \cup Layers ELSE {0})
  /\ as_layer_volume \in [Layers -> Volumes]
  /\ as_volume = DEFAULT_VOLUME
  /\ as_overridden = FALSE
  /\ as_track = 0
  /\ as_current_track = 0
  /\ as_handlers = [t \in AudioTracks |-> 0]
  /\ as_restriction \in [AudioTracks -> Caps]
  /\ as_capsfilter = GST_CAPS_ANY
  /\ as_call = AsCall("init", 0, 0)

ges_audio_source_create_element ==
  /\ as_pc = "new"
  /\ as_pc' = "created"
  /\ _track_changed_cb(as_track)
  /\ as_volume' = _sync_element_to_layer_property_float(as_parent, as_layer, as_volume)
  /\ as_call' = AsCall("create_element", 0, 0)
  /\ UNCHANGED <<as_parent, as_layer, as_layer_volume, as_overridden, as_track,
                 as_restriction>>
  /\ UNCHANGED baseVars
  /\ UNCHANGED notAs

\* ges_track_element_set_track of the source: notify::track runs
\* _track_changed_cb
AsSetTrack(new_track) ==
  /\ as_pc = "created"
  /\ as_track' = new_track
  /\ _track_changed_cb(new_track)
  /\ as_call' = AsCall("set_track", new_track, as_track)
  /\ UNCHANGED <<as_pc, as_parent, as_layer, as_layer_volume, as_volume,
                 as_overridden, as_restriction>>
  /\ UNCHANGED baseVars
  /\ UNCHANGED notAs

\* the restriction caps of a track are set: notify::restriction-caps runs
\* the handlers connected to the track
AsSetRestrictionCaps(new_track, caps) ==
  /\ as_pc = "created"
  /\ as_restriction' = [as_restriction EXCEPT ![new_track] = caps]
  /\ as_capsfilter' = IF as_handlers[new_track] > 0 THEN caps ELSE as_capsfilter
  /\ as_call' = AsCall("set_restriction_caps", new_track, 0)
  /\ UNCHANGED <<as_pc, as_parent, as_layer, as_layer_volume, as_volume,
                 as_overridden, as_track, as_current_track, as_handlers>>
  /\ UNCHANGED baseVars
  /\ UNCHANGED notAs

\* the source is put in a clip, the clip in a layer or out of its layer
AsSetLayer(layer) ==
  /\ as_pc = "created"
  /\ as_parent' = TRUE
  /\ as_layer' = layer
  /\ as_call' = AsCall("set_layer", layer, 0)
  /\ UNCHANGED <<as_pc, as_layer_volume, as_volume, as_overridden, as_track,
                 as_current_track, as_handlers, as_restriction, as_capsfilter>>
  /\ UNCHANGED baseVars
  /\ UNCHANGED notAs

\* the volume meta of a layer is set
AsSetLayerVolume(layer, value) ==
  /\ as_pc = "created"
  /\ as_layer_volume' = [as_layer_volume EXCEPT ![layer] = value]
  /\ as_call' = AsCall("set_layer_volume", layer, 0)
  /\ UNCHANGED <<as_pc, as_parent, as_layer, as_volume, as_overridden, as_track,
                 as_current_track, as_handlers, as_restriction, as_capsfilter>>
  /\ UNCHANGED baseVars
  /\ UNCHANGED notAs

\* the application sets the child property volume
AsSetVolume(value) ==
  /\ as_pc = "created"
  /\ as_volume' = value
  /\ as_overridden' = TRUE
  /\ as_call' = AsCall("set_volume", 0, 0)
  /\ UNCHANGED <<as_pc, as_parent, as_layer, as_layer_volume, as_track,
                 as_current_track, as_handlers, as_restriction, as_capsfilter>>
  /\ UNCHANGED baseVars
  /\ UNCHANGED notAs

\* ------------------------------------------------------------------------
\* The runners of a process (gst-validate-runner.c)
\* ------------------------------------------------------------------------
MaxRunners == 3

Runners == 1 .. MaxRunners
GrCall(op) == [op |-> op]

GrIdle ==
  /\ gr_element_created = FALSE
  /\ gr_first_runner = 0
  /\ gr_initialized = FALSE
  /\ gr_next = 1
  /\ gr_user_created = {}
  /\ gr_handed = [r \in Runners |-> 0]
  /\ gr_call = GrCall("idle")
  /\ gr_ret = 0
  /\ gr_life = "idle"

\* the start of the process
GrStart ==
  /\ gr_element_created = FALSE
  /\ gr_first_runner = 0
  /\ gr_initialized = FALSE
  /\ gr_next = 1
  /\ gr_user_created = {}
  /\ gr_handed = [r \in Runners |-> 0]
  /\ gr_call = GrCall("start")
  /\ gr_ret = 0
  /\ gr_life = "alive"

\* first_runner after gst_validate_init_runner, when g_object_new makes
\* new_runner
gst_validate_init_runner(first_runner, new_runner) ==
  IF first_runner = 0 THEN new_runner ELSE first_runner

\* gst_validate_init: once, it runs gst_validate_init_runner
GrInitValidate ==
  /\ gr_life = "alive"
  /\ ~gr_initialized
  /\ gr_next <= MaxRunners
  /\ gr_initialized' = TRUE
  /\ gr_first_runner' = gst_validate_init_runner(gr_first_runner, gr_next)
  /\ gr_next' = IF gr_first_runner = 0 THEN gr_next + 1 ELSE gr_next
  /\ gr_user_created' = IF gr_first_runner = 0
                        THEN gr_user_created \cup {gr_next}
                        ELSE gr_user_created
  /\ gr_call' = GrCall("init")
  /\ gr_ret' = 0
  /\ UNCHANGED <<gr_element_created, gr_handed, gr_life>>
  /\ UNCHANGED baseVars
  /\ UNCHANGED notGr

\* gst_validate_deinit: it runs gst_validate_deinit_runner
GrDeinitValidate ==
  /\ gr_life = "alive"
  /\ gr_initialized
  /\ gr_initialized' = FALSE
  /\ gr_first_runner' = 0
  /\ gr_call' = GrCall("deinit")
  /\ gr_ret' = 0
  /\ UNCHANGED <<gr_element_created, gr_next, gr_user_created, gr_handed, gr_life>>
  /\ UNCHANGED baseVars
  /\ UNCHANGED notGr

\* a runner made as a tracer: when gst_validate_init has not run,
\* gst_validate_runner_constructor runs it with first_runner set, then
\* clears first_runner
GrTracerNew ==
  /\ gr_life = "alive"
  /\ gr_next <= MaxRunners
  /\ gr_initialized' = TRUE
  /\ gr_first_runner' = IF ~gr_initialized THEN 0 ELSE gr_first_runner
  /\ gr_next' = gr_next + 1
  /\ gr_call' = GrCall("tracer_new")
  /\ gr_ret' = gr_next
  /\ UNCHANGED <<gr_element_created, gr_user_created, gr_handed, gr_life>>
  /\ UNCHANGED baseVars
  /\ UNCHANGED notGr

\* do_element_new, the hook "element-new" of a runner
do_element_new ==
  /\ gr_life = "alive"
  /\ gr_next > 1
  /\ gr_element_created' = TRUE
  /\ gr_call' = GrCall("element_new")
  /\ gr_ret' = 0
  /\ UNCHANGED <<gr_first_runner, gr_initialized, gr_next, gr_user_created,
                 gr_handed, gr_life>>
  /\ UNCHANGED baseVars
  /\ UNCHANGED notGr

\* gst_validate_runner_new that makes a runner whenever none is pending
gst_validate_runner_new_always ==
  /\ gr_life = "alive"
  /\ gr_first_runner # 0 \/ gr_next <= MaxRunners
  /\ IF gr_first_runner # 0
     THEN /\ gr_ret' = gr_first_runner
          /\ gr_first_runner' = 0
          /\ gr_handed' = [gr_handed EXCEPT ![gr_first_runner] = @ + 1]
          /\ UNCHANGED <<gr_next, gr_user_created, gr_initialized, gr_life>>
     ELSE /\ gr_ret' = gr_next
          /\ gr_next' = gr_next + 1
          /\ gr_user_created' = gr_user_created \cup {gr_next}
          /\ gr_handed' = [gr_handed EXCEPT ![gr_next] = @ + 1]
          /\ gr_initialized' = TRUE
          /\ UNCHANGED <<gr_first_runner, gr_life>>
  /\ gr_call' = GrCall("runner_new")
  /\ UNCHANGED gr_element_created
  /\ UNCHANGED baseVars
  /\ UNCHANGED notGr

gst_validate_runner_new ==
  /\ gr_life = "alive"
  /\ gr_first_runner # 0 \/ gr_element_created \/ gr_next <= MaxRunners
  /\ IF gr_first_runner # 0
     THEN /\ gr_ret' = gr_first_runner
          /\ gr_first_runner' = 0
          /\ gr_handed' = [gr_handed EXCEPT ![gr_first_runner] = @ + 1]
          /\ UNCHANGED <<gr_next, gr_user_created, gr_initialized, gr_life>>
     ELSE IF gr_element_created
     THEN /\ gr_life' = "aborted"
          /\ gr_ret' = 0
          /\ UNCHANGED <<gr_first_runner, gr_next, gr_user_created, gr_handed,
                         gr_initialized>>
     ELSE \* g_object_new: the constructor runs gst_validate_init when it has
          \* not run, with first_runner set, and clears first_runner
          /\ gr_ret' = gr_next
          /\ gr_next' = gr_next + 1
          /\ gr_user_created' = gr_user_created \cup {gr_next}
          /\ gr_handed' = [gr_handed EXCEPT ![gr_next] = @ + 1]
          /\ gr_initialized' = TRUE
          /\ UNCHANGED <<gr_first_runner, gr_life>>
  /\ gr_call' = GrCall("runner_new")
  /\ UNCHANGED gr_element_created
  /\ UNCHANGED baseVars
  /\ UNCHANGED notGr

\* ------------------------------------------------------------------------
\* ges_track_element_add_children_props
\* ------------------------------------------------------------------------
MaxChildren == 2

G_PARAM_READABLE == "G_PARAM_READABLE"
G_PARAM_WRITABLE == "G_PARAM_WRITABLE"
ParamFlags == {{G_PARAM_READABLE}, {G_PARAM_READABLE, G_PARAM_WRITABLE}}
ParamNames == {"volume", "mute"}

\* the properties of the class of an element: the flags of each one
ElementClasses == UNION {[names -> ParamFlags] : names \in SUBSET ParamNames}

\* an array of strings, or NULL
Strv(items) == [null |-> FALSE, items |-> items]
NullStrv == [null |-> TRUE, items |-> {}]
strv_find_str(strv, str) == ~strv.null /\ str \in strv.items

\* an element: the name of its factory, the categories of its klass, the
\* properties of its class
Children ==
  [factory : {"volume", "identity"},
   klass : {<<"Filter", "Effect", "Audio">>, <<"Generic">>},
   class : ElementClasses]

\* a bin with the elements gst_bin_iterate_recurse goes over, or an element
\* that is no bin
Bin(children) == [is_bin |-> TRUE, class |-> <<>>, children |-> children]
NonBin(class) == [is_bin |-> FALSE, class |-> class, children |-> <<>>]
NoElement == NonBin(<<>>)
Elements ==
  {NonBin(c) : c \in ElementClasses \cup {[n \in {"mute"} |-> {}]}}
  \cup {Bin(c) : c \in UNION {[1 .. n -> Children] : n \in 0 .. MaxChildren}}

\* a child property: the element it is of (0 for the element given, else
\* the place of the child in the bin) and its GParamSpec
ChildProperty(child, name, flags) ==
  [child |-> child, name |-> name, flags |-> flags]

\* the properties the branch for an element that is no bin adds
WhitelistScan(class, whitelist) ==
  {ChildProperty(0, name, class[name]) :
     name \in {n \in whitelist.items \cap DOMAIN class : class[n] # {}}}

\* the properties added for one child of a bin
ChildScan(k, child, wanted_categories, blacklist, whitelist) ==
  IF strv_find_str(blacklist, child.factory) THEN {}
  ELSE IF \E i \in 1 .. Len(child.klass) :
            wanted_categories.null \/ strv_find_str(wanted_categories, child.klass[i])
  THEN {ChildProperty(k, name, child.class[name]) :
          name \in {n \in DOMAIN child.class :
                      /\ G_PARAM_WRITABLE \in child.class[n]
                      /\ whitelist.null \/ strv_find_str(whitelist, n)}}
  ELSE {}

ges_track_element_add_children_props(element, wanted_categories, blacklist, whitelist) ==
  IF ~element.is_bin
  THEN WhitelistScan(element.class, whitelist)
  ELSE UNION {ChildScan(k, element.children[k], wanted_categories, blacklist, whitelist) :
                k \in 1 .. Len(element.children)}

CpIdle ==
  /\ cp_pc = "idle"
  /\ cp_element = NoElement
  /\ cp_wanted_categories = NullStrv
  /\ cp_blacklist = NullStrv
  /\ cp_whitelist = NullStrv
  /\ cp_children_props = {}

\* the callers give a whitelist with an element that is no bin
CpStart ==
  /\ cp_pc = "start"
  /\ cp_element \in Elements
  /\ cp_wanted_categories \in {NullStrv, Strv({"Audio"})}
  /\ cp_blacklist \in {NullStrv, Strv({"identity"})}
  /\ cp_whitelist \in
       (IF cp_element.is_bin THEN {NullStrv} ELSE {})
       \cup {Strv({"volume", "mute"}), Strv({"mute", "pan"})}
  /\ cp_children_props = {}

CpAddChildrenProps ==
  /\ cp_pc = "start"
  /\ cp_pc' = "done"
  /\ cp_children_props' =
       ges_track_element_add_children_props(cp_element, cp_wanted_categories,
                                            cp_blacklist, cp_whitelist)
  /\ UNCHANGED <<cp_element, cp_wanted_categories, cp_blacklist, cp_whitelist>>
  /\ UNCHANGED baseVars
  /\ UNCHANGED notCp

\* ------------------------------------------------------------------------
\* The pipeline monitor (gst-validate-pipeline-monitor.c)
\* ------------------------------------------------------------------------
MaxSources == 5

GST_STATE_NULL == 1
GST_STATE_READY == 2
GST_STATE_PAUSED == 3
GST_STATE_PLAYING == 4
PipelineStates == GST_STATE_NULL .. GST_STATE_PLAYING
\* the percentages of the buffering messages
Percents == {50, 100}

PmIdle ==
  /\ pm_pc = "idle"
  /\ pm_state = GST_STATE_NULL
  /\ pm_buffering = FALSE
  /\ pm_got_error = FALSE
  /\ pm_print_pos_srcid = 0
  /\ pm_sources = {}
  /\ pm_next_id = 1

gst_validate_pipeline_monitor_new ==
  /\ pm_pc = "run"
  /\ pm_state = GST_STATE_NULL
  /\ pm_buffering = FALSE
  /\ pm_got_error = FALSE
  /\ pm_print_pos_srcid = 0
  /\ pm_sources = {}
  /\ pm_next_id = 1

\* g_source_remove: TRUE when the source was there
g_source_remove(sources, id) == id \in sources

\* the case GST_MESSAGE_STATE_CHANGED of _bus_handler, for a message of the
\* pipeline
StateChanged(oldstate, newstate) ==
  /\ IF oldstate = GST_STATE_READY /\ newstate = GST_STATE_PAUSED
     THEN /\ pm_next_id <= MaxSources
          /\ pm_print_pos_srcid' = pm_next_id
          /\ pm_sources' = pm_sources \cup {pm_next_id}
          /\ pm_next_id' = pm_next_id + 1
          /\ UNCHANGED pm_got_error
     ELSE IF oldstate >= GST_STATE_PAUSED /\ newstate <= GST_STATE_READY
     THEN /\ IF pm_print_pos_srcid # 0
                /\ g_source_remove(pm_sources, pm_print_pos_srcid)
             THEN /\ pm_sources' = pm_sources \ {pm_print_pos_srcid}
                  /\ pm_print_pos_srcid' = 0
             ELSE UNCHANGED <<pm_sources, pm_print_pos_srcid>>
          /\ pm_got_error' = FALSE
          /\ UNCHANGED pm_next_id
     ELSE UNCHANGED <<pm_print_pos_srcid, pm_sources, pm_next_id, pm_got_error>>
  /\ UNCHANGED pm_buffering

\* the pipeline goes to the next state up or down and posts the message
PmStateChanged(newstate) ==
  /\ pm_pc = "run"
  /\ newstate \in {pm_state - 1, pm_state + 1}
  /\ pm_state' = newstate
  /\ StateChanged(pm_state, newstate)
  /\ UNCHANGED pm_pc
  /\ UNCHANGED baseVars
  /\ UNCHANGED notPm

\* the case GST_MESSAGE_BUFFERING of _bus_handler; elements post buffering
\* messages while the pipeline is paused or playing
PmBuffering(percent) ==
  /\ pm_pc = "run"
  /\ pm_state >= GST_STATE_PAUSED
  /\ IF percent = 100
     THEN IF pm_buffering
          THEN /\ pm_next_id <= MaxSources
               /\ pm_print_pos_srcid' = pm_next_id
               /\ pm_sources' = pm_sources \cup {pm_next_id}
               /\ pm_next_id' = pm_next_id + 1
               /\ pm_buffering' = FALSE
          ELSE UNCHANGED <<pm_print_pos_srcid, pm_sources, pm_next_id, pm_buffering>>
     ELSE IF ~pm_buffering
          THEN /\ pm_buffering' = TRUE
               /\ IF pm_print_pos_srcid # 0
                     /\ g_source_remove(pm_sources, pm_print_pos_srcid)
                  THEN /\ pm_sources' = pm_sources \ {pm_print_pos_srcid}
                       /\ pm_print_pos_srcid' = 0
                  ELSE UNCHANGED <<pm_sources, pm_print_pos_srcid>>
               /\ UNCHANGED pm_next_id
          ELSE UNCHANGED <<pm_print_pos_srcid, pm_sources, pm_next_id, pm_buffering>>
  /\ UNCHANGED <<pm_pc, pm_state, pm_got_error>>
  /\ UNCHANGED baseVars
  /\ UNCHANGED notPm

\* the case GST_MESSAGE_ERROR of _bus_handler
PmError ==
  /\ pm_pc = "run"
  /\ pm_got_error' = TRUE
  /\ UNCHANGED <<pm_pc, pm_state, pm_buffering, pm_print_pos_srcid, pm_sources,
                 pm_next_id>>
  /\ UNCHANGED baseVars
  /\ UNCHANGED notPm

\* ------------------------------------------------------------------------
\* The programs that are not run
\* ------------------------------------------------------------------------
BaseIdle == TeIdle /\ KfIdle /\ RnIdle
XIdle == HkIdle /\ AsIdle /\ GrIdle /\ CpIdle /\ PmIdle
XIdleBut(program) ==
  /\ IF program = "hook" THEN TRUE ELSE HkIdle
  /\ IF program = "audio" THEN TRUE ELSE AsIdle
  /\ IF program = "runners" THEN TRUE ELSE GrIdle
  /\ IF program = "props" THEN TRUE ELSE CpIdle
  /\ IF program = "monitor" THEN TRUE ELSE PmIdle

\* ------------------------------------------------------------------------
\* Specifications
\* ------------------------------------------------------------------------
Init == TeInit /\ KfIdle /\ RnIdle /\ XIdle

SetStart == \E v \in Starts : ges_timeline_element_set_start(v)
SetInpoint == \E v \in TeTimes : ges_timeline_element_set_inpoint(v)
SetDuration ==
  \E v \in TeTimes \cup {GST_CLOCK_TIME_NONE} : ges_timeline_element_set_duration(v)
SetPriority == \E v \in Priorities : ges_timeline_element_set_priority(v)
SetActive == \E v \in BOOLEAN : ges_track_element_set_active(v)
SetTrack == \E t \in Tracks : ges_track_element_set_track(t)
SetControlSource ==
  \/ \E s \in TeSources, n \in ChildProps, t \in {"direct", "direct-absolute"} :
       ges_track_element_set_control_source(TRUE, s, n, t)
  \/ \E n \in PropertyNames \ ChildProps :
       ges_track_element_set_control_source(TRUE, <<>>, n, "direct")
  \/ \E t \in BindingTypes \ {"direct", "direct-absolute"} :
       ges_track_element_set_control_source(TRUE, <<>>, "volume", t)
  \/ ges_track_element_set_control_source(FALSE, <<>>, "volume", "direct")
RemoveControlBinding ==
  \E n \in PropertyNames : ges_track_element_remove_control_binding(n)

Next ==
  \/ SetStart
  \/ SetInpoint
  \/ SetDuration
  \/ SetPriority
  \/ SetActive
  \/ SetTrack
  \/ SetControlSource
  \/ RemoveControlBinding

Spec == Init /\ [][Next]_vars

\* the keyframe operations on every control source, in-point and duration
KfInit == KfStart /\ TeIdle /\ RnIdle /\ XIdle
KfNext == KfResync \/ KfResyncAgain \/ KfSplit
SpecKf == KfInit /\ [][KfNext]_vars

\* one element through its life: put into a track, edited, taken out,
\* disposed
LifeInit ==
  /\ maxduration = GST_CLOCK_TIME_NONE
  /\ ges_track_element_init
  /\ ges_track_element_constructed
  /\ call = Call("constructed", 0, "")
  /\ ret = nleobject
  /\ steps = 0
  /\ emitted = <<>>
  /\ nle_state = NleIdle
  /\ track_timeline \in BOOLEAN
  /\ edit_algo = "none"
  /\ neighbour \in Neighbours
  /\ KfIdle
  /\ RnIdle
  /\ XIdle
Dispose == ges_track_element_dispose
\* the edge matters to trim, ripple and roll; an edit that runs into a
\* pinned element fails wherever it goes
EditInputs ==
  {<<m, e, p, FALSE>> : m \in {"trim", "ripple", "roll"}, e \in Edges, p \in TeTimes}
  \cup {<<m, "none", p, FALSE>> : m \in {"normal", "slide"}, p \in TeTimes}
  \cup {<<m, "none", 0, TRUE>> : m \in EditModes}
  \cup {<<"unknown", "none", 0, FALSE>>}
Edit == \E i \in EditInputs : ges_track_element_edit(i[1], i[2], i[3], i[4])
NleChangeState == \E s \in NleStates : gst_element_set_state(s)
LifeBind ==
  ges_track_element_set_control_source(TRUE, <<TimedValue(0, R0), TimedValue(MaxTeTime, R1)>>,
                                       "volume", "direct")
LifeNext == SetTrack \/ Dispose \/ Edit \/ NleChangeState \/ LifeBind
SpecLife == LifeInit /\ [][LifeNext]_vars

\* one runner and the reports added to it
RnInit == gst_validate_runner_init /\ TeIdle /\ KfIdle /\ XIdle
RnAddReport ==
  \E r \in Reports, l \in ReporterLevels : gst_validate_runner_add_report(r, l)
RnAddRepeated ==
  \E k \in 1 .. MaxReports : gst_validate_report_add_repeated_report(k)
RnExitAny == \E p \in BOOLEAN : RnExit(p)
RnNext == RnAddReport \/ RnAddRepeated \/ RnGetReportsCount \/ RnExitAny
SpecRunner == RnInit /\ [][RnNext]_vars

\* one run of the hook over the lines of a push
HkInit == HkStart /\ BaseIdle /\ XIdleBut("hook")
HkReadLine == \E line \in Lines : HkLine(line)
HkNext == HkReadLine \/ HkEof
SpecHook == HkInit /\ [][HkNext]_vars

\* one audio source: created, moved between tracks and layers
AsInit == AsStart /\ BaseIdle /\ XIdleBut("audio")
AsCreate == ges_audio_source_create_element
AsTrackChange == \E t \in {0} \cup AudioTracks : AsSetTrack(t)
AsRestrictionChange == \E t \in AudioTracks, c \in Caps : AsSetRestrictionCaps(t, c)
AsLayerChange == \E l \in {0} \cup Layers : AsSetLayer(l)
AsLayerVolumeChange == \E l \in Layers, v \in Volumes : AsSetLayerVolume(l, v)
AsVolumeChange == \E v \in Volumes : AsSetVolume(v)
AsNext ==
  \/ AsCreate
  \/ AsTrackChange
  \/ AsRestrictionChange
  \/ AsLayerChange
  \/ AsLayerVolumeChange
  \/ AsVolumeChange
SpecAudio == AsInit /\ [][AsNext]_vars

\* the runners of one process
GrInit == GrStart /\ BaseIdle /\ XIdleBut("runners")
GrNext ==
  \/ GrInitValidate
  \/ GrDeinitValidate
  \/ GrTracerNew
  \/ do_element_new
  \/ gst_validate_runner_new
SpecRunners == GrInit /\ [][GrNext]_vars

\* one call of ges_track_element_add_children_props on every element
CpInit == CpStart /\ BaseIdle /\ XIdleBut("props")
CpNext == CpAddChildrenProps
SpecProps == CpInit /\ [][CpNext]_vars

\* one pipeline monitor and the messages of the bus of its pipeline
PmInit == gst_validate_pipeline_monitor_new /\ BaseIdle /\ XIdleBut("monitor")
PmStateChange == \E st \in PipelineStates : PmStateChanged(st)
PmBufferingAny == \E percent \in Percents : PmBuffering(percent)
PmNext == PmStateChange \/ PmBufferingAny \/ PmError
SpecMonitor == PmInit /\ [][PmNext]_vars

\* ------------------------------------------------------------------------
\* Properties
\* ------------------------------------------------------------------------
InsideInterval(source, in, dur) ==
  \A p \in PointSet(source) : in <= p.timestamp /\ p.timestamp <= in + dur

AfterCall(op) == call.op = op /\ nleobject

\* C1: after set_duration (d) on an element with a NleObject and a valid
\* max-duration, the duration set on the NleObject satisfies
\* inpoint + duration <= max-duration
C1_DurationWithinMaxDuration ==
  (AfterCall("set_duration") /\ ret /\ GST_CLOCK_TIME_IS_VALID(maxduration))
    => inpoint + nle.duration <= maxduration

\* C2: after one resync of a control source to (inpoint, duration), with a
\* bounded non-zero duration, every point left in the source has
\* inpoint <= timestamp <= inpoint + duration
KfBounded == kf_duration # 0 /\ kf_duration # GST_CLOCK_TIME_NONE

C2_ResyncWithinInterval ==
  (kf_pc = "once" /\ KfBounded) => InsideInterval(kf_source, kf_inpoint, kf_duration)

\* a resync with a bounded duration that has removed points on both sides
C2_Witness ==
  /\ kf_pc = "once"
  /\ KfBounded
  /\ Len(kf_source) >= 2
  /\ \E p \in PointSet(kf_values) : p.timestamp < kf_inpoint
  /\ \E p \in PointSet(kf_values) : p.timestamp > kf_inpoint + kf_duration

\* C3: after a successful set_inpoint or set_duration on an element whose
\* duration is bounded, every point of every bound control source lies in
\* [inpoint, inpoint + duration]
C3_BindingsInsideInterval ==
  (/\ call.op \in {"set_inpoint", "set_duration"}
   /\ ret
   /\ duration # GST_CLOCK_TIME_NONE)
    => \A n \in ChildProps :
         bindings[n].bound => InsideInterval(bindings[n].source, inpoint, duration)

\* C4: the split at a position is a partition of the original points
SplitKeepsLater ==
  /\ \A p \in PointSet(kf_values) :
       p.timestamp > kf_position
         => p \in PointSet(kf_new_source) /\ p \notin PointSet(kf_source)
  /\ \A p \in PointSet(kf_new_source) : p.timestamp >= kf_position
  /\ \A p \in PointSet(kf_source) \cup PointSet(kf_new_source) :
       p \notin PointSet(kf_values) => p.timestamp = kf_position
  /\ kf_new_source # <<>>
       => \E p \in PointSet(kf_source) :
            p.timestamp = kf_position /\ p \in PointSet(kf_new_source)

\* C4, as claimed: every original point with timestamp <= position is still
\* in the original source, every later one is in the new source only, and
\* the only new points are the boundary points at position, of equal value
C4_SplitIsPartition ==
  kf_pc = "split"
    => /\ \A p \in PointSet(kf_values) :
            p.timestamp <= kf_position => p \in PointSet(kf_source)
       /\ SplitKeepsLater

InUnitRange(v) == RLeq(R0, v) /\ RLeq(v, R1)

\* C4, amended: as claimed, but an original point at exactly the position
\* keeps its value only when the binding is absolute or its value is in
\* [0, 1]; otherwise the boundary point with the clamped value replaces it
C4_SplitIsPartitionUpToClamp ==
  kf_pc = "split"
    => /\ \A p \in PointSet(kf_values) :
            p.timestamp < kf_position => p \in PointSet(kf_source)
       /\ \A p \in PointSet(kf_values) :
            p.timestamp = kf_position
              => /\ kf_position \in Timestamps(kf_source)
                 /\ (kf_absolute \/ InUnitRange(p.value) \/ kf_new_source = <<>>)
                      => p \in PointSet(kf_source)
       /\ SplitKeepsLater

\* a split with points on both sides and an original point at the position
C4_Witness ==
  /\ kf_pc = "split"
  /\ Len(kf_new_source) >= 2
  /\ Len(kf_source) >= 2
  /\ kf_position \in Timestamps(kf_values)

\* C5: a second resync with the same in-point and duration (zero, bounded
\* or unbounded) leaves the points of the first one
C5_ResyncIdempotent == kf_pc = "twice" => kf_source = kf_once

\* a second resync of a source the first resync has changed
C5_Witness ==
  /\ kf_pc = "twice"
  /\ Len(kf_source) >= 2
  /\ kf_once # kf_values

\* C6: a resync with a bounded duration re-anchors both boundaries and keeps
\* the points strictly inside of the interval
MinPoint(S) == CHOOSE p \in S : \A q \in S : p.timestamp <= q.timestamp
MaxPoint(S) == CHOOSE p \in S : \A q \in S : p.timestamp >= q.timestamp
\* the first point of S after t, the nearest point of S before t
FirstAfter(S, t) ==
  LET later == {p \in S : p.timestamp > t}
  IN IF later = {} THEN NoValue ELSE MinPoint(later)
NearestBefore(S, t) ==
  LET earlier == {p \in S : p.timestamp < t}
  IN IF earlier = {} THEN NoValue ELSE MaxPoint(earlier)

\* the value expected at the in-point: between the earliest point and the
\* first of the other points after the in-point
C6_LeftValue ==
  LET earliest == MinPoint(PointSet(kf_values))
  IN interpolate_values_for_position(earliest,
       FirstAfter(PointSet(kf_values) \ {earliest}, kf_inpoint),
       kf_inpoint, kf_absolute)

\* the points once the left boundary is re-anchored
C6_LeftAnchored ==
  LET earliest == MinPoint(PointSet(kf_values))
  IN {p \in PointSet(kf_values) \ {earliest} : p.timestamp # kf_inpoint}
       \cup {TimedValue(kf_inpoint, C6_LeftValue)}

\* the value expected at inpoint + duration: between the nearest earlier
\* point and the last point
C6_RightValue ==
  LET last == MaxPoint(C6_LeftAnchored)
  IN interpolate_values_for_position(
       NearestBefore(C6_LeftAnchored \ {last}, kf_inpoint + kf_duration),
       last, kf_inpoint + kf_duration, kf_absolute)

C6_Anchored ==
  /\ TimedValue(kf_inpoint, C6_LeftValue) \in PointSet(kf_source)
  /\ TimedValue(kf_inpoint + kf_duration, C6_RightValue) \in PointSet(kf_source)
  /\ \A p \in PointSet(kf_values) :
       (kf_inpoint < p.timestamp /\ p.timestamp < kf_inpoint + kf_duration)
         => p \in PointSet(kf_source)

\* the example [(0,0.0),(10,1.0),(20,0.0)], in-point 5, duration 10, in
\* time units of 5
C6_Example == <<TimedValue(0, R0), TimedValue(2, R1), TimedValue(4, R0)>>
C6_ExampleResult == <<TimedValue(1, RHalf), TimedValue(2, R1), TimedValue(3, RHalf)>>
C6_ExampleHolds ==
  (kf_values = C6_Example /\ kf_absolute /\ kf_inpoint = 1 /\ kf_duration = 2)
    => kf_source = C6_ExampleResult

\* C6, as claimed: for every control source with at least one point
C6_ResyncAnchorsBothBoundaries ==
  (kf_pc = "once" /\ KfBounded /\ kf_values # <<>>)
    => C6_Anchored /\ C6_ExampleHolds

\* C6, amended: for every control source whose earliest point is at or
\* before the in-point and whose last point is at or after
\* inpoint + duration
C6_ResyncAnchorsInsideSpan ==
  (/\ kf_pc = "once"
   /\ KfBounded
   /\ kf_values # <<>>
   /\ kf_values[1].timestamp <= kf_inpoint
   /\ kf_values[Len(kf_values)].timestamp >= kf_inpoint + kf_duration)
    => C6_Anchored /\ C6_ExampleHolds

C6_Witness ==
  /\ kf_pc = "once"
  /\ kf_values = C6_Example
  /\ kf_absolute
  /\ kf_inpoint = 1
  /\ kf_duration = 2
  /\ kf_source = C6_ExampleResult

\* C7, as claimed: set_priority (p) with p < MIN_NLE_PRIO sets exactly
\* MIN_NLE_PRIO on the NleObject and returns TRUE, whatever the current
\* priority
C7_LowPriorityIsChanged ==
  (AfterCall("set_priority") /\ call.arg < MIN_NLE_PRIO)
    => ret /\ nle.priority = MIN_NLE_PRIO /\ "priority" \in written

\* C7, amended: it does so when the current priority is not MIN_NLE_PRIO;
\* when it is, the call returns FALSE and sets nothing on the NleObject
C7_LowPriorityIsClamped ==
  [][(call'.op = "set_priority" /\ steps' = steps + 1 /\ nleobject
        /\ call'.arg < MIN_NLE_PRIO)
      => IF priority # MIN_NLE_PRIO
         THEN ret' /\ nle'.priority = MIN_NLE_PRIO /\ "priority" \in written'
              /\ priority' = MIN_NLE_PRIO
         ELSE ~ret' /\ written' = {} /\ nle' = nle /\ priority' = priority]_vars

C7_Witness ==
  /\ AfterCall("set_priority")
  /\ call.arg < MIN_NLE_PRIO
  /\ ret
  /\ nle.priority = MIN_NLE_PRIO

\* C8: in every state the priority of the element, and the one set on its
\* NleObject, is at least MIN_NLE_PRIO
C8_PriorityAtLeastMin ==
  /\ priority >= MIN_NLE_PRIO
  /\ nleobject => nle.priority >= MIN_NLE_PRIO

\* C9: each setter returns FALSE, sets nothing on the NleObject and leaves
\* the control sources alone when the clamped value is the current one,
\* and otherwise sets the clamped value on the NleObject and returns TRUE
\* the value of the specification: the duration is reduced to
\* max-duration - inpoint when inpoint + duration exceeds max-duration
ClampedDuration(d) ==
  IF GST_CLOCK_TIME_IS_VALID(maxduration) /\ inpoint + d > maxduration
  THEN IF maxduration >= inpoint THEN maxduration - inpoint ELSE 0
  ELSE d

ClampedPriority(p) == IF p < MIN_NLE_PRIO THEN MIN_NLE_PRIO ELSE p

NoOp == ~ret' /\ written' = {} /\ nle' = nle /\ bindings' = bindings

SetterEffect(new_value, current, property) ==
  IF new_value = current
  THEN NoOp
  ELSE ret' /\ nle'[property] = new_value /\ property \in written'

C9_SettersNoOpOrApply ==
  [][(nleobject /\ steps' = steps + 1)
      => /\ call'.op = "set_start" => SetterEffect(call'.arg, start, "start")
         /\ call'.op = "set_inpoint" => SetterEffect(call'.arg, inpoint, "inpoint")
         /\ call'.op = "set_duration"
              => SetterEffect(ClampedDuration(call'.arg), duration, "duration")
         /\ call'.op = "set_priority"
              => SetterEffect(ClampedPriority(call'.arg), priority, "priority")]_vars

\* C10: without a NleObject the setters, set_active and set_track fail and
\* change nothing; an element that is in a track has a NleObject
NeedNleObject ==
  {"set_start", "set_inpoint", "set_duration", "set_priority", "set_active",
   "set_track"}

C10_NothingWithoutNleObject ==
  /\ [][(~nleobject /\ steps' = steps + 1 /\ call'.op \in NeedNleObject)
         => /\ ~ret'
            /\ UNCHANGED <<start, inpoint, duration, priority, active, track,
                           bindings, nle>>]_vars
  /\ [](track # 0 => nleobject)

C10_Witness ==
  /\ ~nleobject
  /\ call.op = "set_track"
  /\ call.arg # 0
  /\ ~ret
  /\ track = 0

\* a step that is the call of op
Calls(op) == steps' = steps + 1 /\ call'.op = op

\* C11: ges_track_element_set_track (track) on an element that is in a
\* track fails and leaves the track and the NleObject of the element as
\* they are; a NleObject is never created after the construction
C11_AttachTwiceFails ==
  /\ [][(Calls("set_track") /\ call'.arg # 0 /\ track # 0)
         => /\ ~ret'
            /\ track' = track
            /\ nleobject' = nleobject
            /\ nle' = nle]_vars
  /\ [][nleobject' => nleobject]_vars

\* C12: taking the element out of its track while its NleObject is not in
\* the NULL state, or is changing state, fails; the element is still in
\* the track, and its start, in-point, duration, priority and bindings are
\* as before
C12_DetachWhileScheduledFails ==
  [][(Calls("set_track") /\ call'.arg = 0 /\ track # 0 /\ Scheduled(nle_state))
      => /\ ~ret'
         /\ track' = track
         /\ UNCHANGED <<start, inpoint, duration, priority, bindings>>]_vars

\* C13: disposing of an element that is in a track aborts the program and
\* does not release the NleObject; disposing of an element that is in no
\* track does not abort and releases the NleObject, if there is one, once;
\* nothing is released afterwards
C13_DisposeInTrackIsFatal ==
  /\ [][Calls("dispose")
         => IF track # 0
            THEN /\ life' = "aborted"
                 /\ unrefs' = unrefs
                 /\ nleobject' = nleobject
            ELSE /\ life' = "disposed"
                 /\ unrefs' = IF nleobject THEN 1 ELSE 0
                 /\ ~nleobject']_vars
  /\ [][life # "alive" => UNCHANGED <<life, unrefs, nleobject, track>>]_vars

C13_Witness ==
  /\ call.op = "dispose"
  /\ life = "aborted"
  /\ track # 0
  /\ nleobject
  /\ unrefs = 0

\* C14: ges_track_element_edit on an element that is in no track, or whose
\* track is in no timeline, returns FALSE in every mode, calls no edit
\* function of the timeline and changes nothing; with an unknown mode it
\* returns FALSE as well
C14_EditUnplacedFails ==
  /\ [][(Calls("edit") /\ (track = 0 \/ ~track_timeline))
         => /\ ~ret'
            /\ edit_algo' = "none"
            /\ UNCHANGED <<start, inpoint, duration, priority, active, track,
                           neighbour, nle, bindings, controlled, nleobject,
                           life>>]_vars
  /\ [][(Calls("edit") /\ call'.name \notin EditModes) => ~ret']_vars

C14_Witness ==
  /\ call.op = "edit"
  /\ call.name = "trim"
  /\ track # 0
  /\ ~track_timeline
  /\ ~ret
  /\ edit_algo = "none"

BoolArg(b) == IF b THEN 1 ELSE 0

OneBindingPerName ==
  \A n \in ChildProps : controlled[n] = IF bindings[n].bound THEN 1 ELSE 0

C17_BindReplaces ==
  /\ [][Calls("set_control_source")
         => \A s \in TeSources, n \in ChildProps, t \in BindingTypes :
              (ges_track_element_set_control_source(TRUE, s, n, t) /\ ret')
                => /\ bindings'[n] = Binding(t = "direct-absolute", s)
                   /\ controlled'[n] = 1
                   /\ \A o \in ChildProps \ {n} :
                        /\ bindings'[o] = bindings[o]
                        /\ controlled'[o] = controlled[o]]_vars
  /\ []OneBindingPerName

\* "volume" has just been bound while "pan" has a binding
C17_Witness ==
  /\ call.op = "set_control_source"
  /\ call.name = "volume"
  /\ ret
  /\ bindings["volume"].bound
  /\ bindings["pan"].bound
  /\ controlled["volume"] = 1

\* C18: set_control_source with a name that is no child property, without
\* a control source, or with a type other than direct and direct-absolute
\* returns FALSE, emits no control-binding-added and leaves every binding
\* as it is (a call that fails does not look at the points of the source)
C18_BadBindFails ==
  [][Calls("set_control_source")
      => \A h \in BOOLEAN, n \in PropertyNames, t \in BindingTypes :
           (/\ ~h \/ n \notin ChildProps \/ t \notin {"direct", "direct-absolute"}
            /\ ges_track_element_set_control_source(h, <<>>, n, t))
             => /\ ~ret'
                /\ emitted' = <<>>
                /\ UNCHANGED <<bindings, controlled>>]_vars

C18_Witness ==
  /\ call.op = "set_control_source"
  /\ call.name = "volume"
  /\ ~ret
  /\ emitted = <<>>
  /\ bindings["volume"].bound
  /\ controlled["volume"] = 1

\* the reports of the hash table of synthesized reports
Synthesized ==
  {rn_reports_by_type[i][k] : <<i, k>> \in
     {<<i, k>> \in IssueIds \X (1 .. MaxReports + 1) :
        k <= Len(rn_reports_by_type[i])}}
Detailed == {rn_reports[k] : k \in 1 .. Len(rn_reports)}
AnyCritical ==
  \E r \in Detailed \cup Synthesized : r.level = GST_VALIDATE_REPORT_LEVEL_CRITICAL

\* C19: gst_validate_runner_exit returns 18 when a critical report is in
\* the list of reports or among the synthesized reports of the runner, and
\* 0 when there is none, whether it prints the result or not
C19_ExitCodeTellsCriticals ==
  rn_call.op = "exit" => rn_ret = IF AnyCritical THEN 18 ELSE 0

\* C20: gst_validate_runner_get_reports_count returns the number of
\* reports the runner has recorded: the reports of its list, their
\* repeated reports, and the synthesized reports, each counted once
C20_CountsEveryReport ==
  rn_call.op = "get_reports_count"
    => rn_ret = Len(rn_reports) + SumRepeated(rn_reports)
                + SumLengths(rn_reports_by_type, IssueIds)


\* C21: when the hook ends, it has rejected the push (exit status not 0) if
\* a commit of a range it handled has a subject starting with "!", "WIP:"
\* or "wip:"
C21_WipPushRejected ==
  (hk_pc = "exit" /\ hk_pushed_wip) => hk_status # 0

InUnit(v) == RLeq(R0, v) /\ RLeq(v, R1)
AllInUnit(source) == \A p \in PointSet(source) : InUnit(p.value)
ValueAt(source, t) == (CHOOSE p \in PointSet(source) : p.timestamp = t).value

\* the boundary points a resync or a split has inserted have a value in
\* [0.0, 1.0]
BoundariesInUnit ==
  /\ kf_pc = "once" =>
       /\ kf_inpoint \in Timestamps(kf_source) =>
            InUnit(ValueAt(kf_source, kf_inpoint))
       /\ (kf_duration # GST_CLOCK_TIME_NONE
           /\ U64(kf_duration + kf_inpoint) \in Timestamps(kf_source)) =>
            InUnit(ValueAt(kf_source, U64(kf_duration + kf_inpoint)))
  /\ (kf_pc = "split" /\ \E p \in PointSet(kf_values) : p.timestamp > kf_position) =>
       /\ InUnit(ValueAt(kf_source, kf_position))
       /\ InUnit(ValueAt(kf_new_source, kf_position))

\* C22 as stated: on a binding that is not absolute,
\* interpolate_values_for_position yields a value in [0.0, 1.0] whichever of
\* the two points are there and wherever the position is, and so every
\* boundary point inserted by a resync or a split has a value in [0.0, 1.0]
C22_InterpolatedInUnit ==
  ~kf_absolute =>
    /\ \A prev \in PointSet(kf_values) \cup {NoValue},
          next \in PointSet(kf_values) \cup {NoValue}, position \in Times :
         /\ prev # NoValue \/ next # NoValue
         /\ (prev # NoValue /\ next # NoValue) => prev.timestamp < next.timestamp
         => InUnit(interpolate_values_for_position(prev, next, position, FALSE))
    /\ BoundariesInUnit

\* C22 amended: on a binding that is not absolute,
\* interpolate_values_for_position yields a value in [0.0, 1.0] when both
\* points are there, wherever the position is; with one point only it yields
\* the value of that point as it is; a boundary point inserted by a resync
\* or a split of a source whose values are all in [0.0, 1.0] has a value in
\* [0.0, 1.0].  The function is evaluated in the state an operation starts
\* from, on the points of the source and the position kf_inpoint, which the
\* start states draw from every source and every time
C22_InterpolatedInUnitOfTwoPoints ==
  ~kf_absolute =>
    /\ kf_pc = "start" =>
         /\ \A prev \in PointSet(kf_values), next \in PointSet(kf_values) :
              prev.timestamp < next.timestamp
              => InUnit(interpolate_values_for_position(prev, next, kf_inpoint, FALSE))
         /\ \A p \in PointSet(kf_values) :
              /\ interpolate_values_for_position(NoValue, p, kf_inpoint, FALSE) = p.value
              /\ interpolate_values_for_position(p, NoValue, kf_inpoint, FALSE) = p.value
    /\ AllInUnit(kf_values) => BoundariesInUnit

\* a resync of a source that is not absolute, with values in [0.0, 1.0], has
\* inserted a boundary point where the line through two points leaves
\* [0.0, 1.0]
C22_Witness ==
  /\ kf_pc = "once"
  /\ ~kf_absolute
  /\ AllInUnit(kf_values)
  /\ Len(kf_values) >= 2
  /\ kf_inpoint \in Timestamps(kf_source)
  /\ ~InUnit(interpolate_values_unclamped(kf_values[1], FindNext(kf_values, kf_inpoint),
                                          kf_inpoint, FALSE))

\* C23 as stated: after a change of the track of a source whose clip is in a
\* layer, the volume is the volume of the layer, unless the application has
\* set it
C23_TrackChangeAppliesLayerVolume ==
  (as_call.op = "set_track" /\ as_parent /\ as_layer # 0 /\ ~as_overridden)
  => as_volume = as_layer_volume[as_layer]

\* C23 amended: the volume of the layer is applied when the element is
\* created, if the clip of the source is in a layer then, and a change of
\* the track leaves the volume as it is
C23_LayerVolumeAppliedAtCreation ==
  [][/\ (as_pc = "new" /\ as_pc' = "created" /\ as_parent /\ as_layer # 0)
        => as_volume' = as_layer_volume[as_layer]
     /\ as_call'.op = "set_track" => as_volume' = as_volume]_vars

\* a source created in a layer whose volume is not the default, then moved
\* to a track
C23_Witness ==
  /\ as_call.op = "set_track"
  /\ as_track # 0
  /\ as_parent
  /\ as_layer # 0
  /\ ~as_overridden
  /\ as_volume = as_layer_volume[as_layer]
  /\ as_volume # DEFAULT_VOLUME

\* C24: the source is connected once to the restriction caps of its track
\* and to those of no other track, and when it has a track its capsfilter
\* holds the restriction caps of that track
C24_SubscribedToCurrentTrackOnly ==
  as_pc = "created" =>
    /\ as_current_track = as_track
    /\ \A t \in AudioTracks : as_handlers[t] = (IF t = as_track THEN 1 ELSE 0)
    /\ as_track # 0 => as_capsfilter = as_restriction[as_track]

\* the source has gone from one track to another
C24_Witness ==
  /\ as_call.op = "set_track"
  /\ as_call.from # 0
  /\ as_track # 0
  /\ as_call.from # as_track
  /\ as_handlers[as_call.from] = 0
  /\ as_handlers[as_track] = 1
RunnerNewStep ==
  /\ gr_call'.op = "runner_new"
  /\ <<gr_handed, gr_life>>' # <<gr_handed, gr_life>>

\* C25: once do_element_new has run, gst_validate_runner_new returns the
\* pending first runner and forgets it, or ends in g_error when none is
\* pending, and makes no runner; before do_element_new has run and with no
\* first runner pending it returns a runner it has made, marked as created by
\* the user; no runner is returned twice
C25_NoRunnerAfterElement ==
  [][RunnerNewStep =>
       /\ gr_element_created =>
            /\ gr_next' = gr_next
            /\ IF gr_first_runner # 0
               THEN /\ gr_ret' = gr_first_runner
                    /\ gr_first_runner' = 0
                    /\ gr_life' = "alive"
               ELSE gr_life' = "aborted"
       /\ (~gr_element_created /\ gr_first_runner = 0) =>
            /\ gr_ret' = gr_next
            /\ gr_next' = gr_next + 1
            /\ gr_ret' \in gr_user_created'
            /\ gr_life' = "alive"
       /\ \A r \in Runners : gr_handed'[r] <= 1]_vars

\* after an element was created, gst_validate_runner_new has returned the
\* first runner that was pending
C25_Witness ==
  /\ gr_element_created
  /\ gr_call.op = "runner_new"
  /\ gr_life = "alive"
  /\ gr_ret # 0
  /\ gr_handed[gr_ret] = 1
  /\ gr_first_runner = 0
\* C26: every child property ges_track_element_add_children_props has added
\* is writable, for a bin and for an element that is no bin
C26_ChildPropsAreWritable ==
  cp_pc = "done" => \A prop \in cp_children_props : G_PARAM_WRITABLE \in prop.flags

\* the piecewise-linear curve through the points of a source, at a position
\* between its first and its last point
Curve(source, t) ==
  IF t \in Timestamps(source) THEN ValueAt(source, t)
  ELSE LET before == {k \in 1 .. Len(source) : source[k].timestamp < t}
           prev == source[CHOOSE k \in before : \A j \in before : j <= k]
           after == {k \in 1 .. Len(source) : source[k].timestamp > t}
           next == source[CHOOSE k \in after : \A j \in after : k <= j]
       IN RAdd(prev.value,
               RMul(Rat(t - prev.timestamp, next.timestamp - prev.timestamp),
                    RSub(next.value, prev.value)))

ResyncInsideCurve ==
  /\ kf_pc = "once"
  /\ kf_absolute
  /\ kf_duration # GST_CLOCK_TIME_NONE
  /\ kf_duration > 0
  /\ kf_values # <<>>
  /\ kf_values[1].timestamp <= kf_inpoint
  /\ kf_inpoint + kf_duration <= kf_values[Len(kf_values)].timestamp

\* C27: after a resync of an absolute source to an in-point and an end that
\* lie between its first and its last point, the points at the in-point and
\* at the end have the values of the curve through the original points at
\* these positions
C27_ResyncKeepsCurve ==
  ResyncInsideCurve =>
    /\ kf_inpoint \in Timestamps(kf_source)
    /\ ValueAt(kf_source, kf_inpoint) = Curve(kf_values, kf_inpoint)
    /\ (kf_inpoint + kf_duration) \in Timestamps(kf_source)
    /\ ValueAt(kf_source, kf_inpoint + kf_duration)
         = Curve(kf_values, kf_inpoint + kf_duration)

NumBound(b) == Cardinality({n \in ChildProps : b[n].bound})
NumEmitted(signals, name) ==
  Cardinality({k \in 1 .. Len(signals) : signals[k] = name})

\* C28: every call changes the number of control-binding-added signals minus
\* the number of control-binding-removed signals by as much as it changes
\* the number of bound names, so that after any calls the difference is the
\* number of bound names; remove_control_binding returns TRUE exactly when
\* the name was bound, and the name is not bound afterwards
C28_BindingSignalsBalanced ==
  [][steps' = steps + 1 =>
       /\ NumEmitted(emitted', "control-binding-added")
            - NumEmitted(emitted', "control-binding-removed")
          = NumBound(bindings') - NumBound(bindings)
       /\ call'.op = "remove_control_binding" =>
            /\ ret' = (call'.name \in ChildProps /\ bindings[call'.name].bound)
            /\ call'.name \in ChildProps => ~bindings'[call'.name].bound]_vars

\* C29: with the default level smart, a report of a reporter whose level is
\* unknown goes to the list of detailed reports, with report-added, when it
\* is critical or makes the run abort, and to the hash table of synthesized
\* reports only when it is neither
C29_SmartKeepsCriticalsDetailed ==
  [][rn_call'.op = "add_report" =>
       \A r \in Reports :
         (rn_default_level = "smart" /\ gst_validate_runner_add_report(r, "unknown"))
         => LET levelled == gst_validate_report_set_reporting_level(r, "smart")
            IN IF gst_validate_report_check_abort(r)
                  \/ r.level = GST_VALIDATE_REPORT_LEVEL_CRITICAL
               THEN /\ rn_reports' = Append(rn_reports, levelled)
                    /\ rn_emitted' = <<"report-added">>
                    /\ UNCHANGED rn_reports_by_type
               ELSE /\ rn_reports_by_type' = synthesize_reports(levelled)
                    /\ rn_emitted' = <<>>
                    /\ UNCHANGED rn_reports]_vars

\* C30: at most one timeout of print_position is registered, and when one
\* is registered its id is print_pos_srcid
C30_OnePositionTimeout ==
  /\ Cardinality(pm_sources) <= 1
  /\ pm_sources # {} => pm_sources = {pm_print_pos_srcid}

====
